---------------------------- MODULE Spec2Model ----------------------------
(***************************************************************************)
(* A model of backend/main.go of network-view-osx: the mDNS discovery      *)
(* loops (multicast listener, 5-second query scheduler, periodic browser), *)
(* the seen-key cache, the broadcast hub with its subscriber channels, and *)
(* the interface-set handler.                                              *)
(*                                                                         *)
(* Go strings are modelled as sequences of tokens.  A token is either one  *)
(* of the separators "." and ":" or a maximal run of other characters, so  *)
(* that Go's concatenation, strings.Split(s, "."), strings.TrimSuffix and  *)
(* fmt.Sprintf("%s:%s:%d") are computed on the model as on the string.     *)
(***************************************************************************)
EXTENDS Integers, Sequences, FiniteSets, Bags, TLC

(***************************************************************************)
(* Bounds of the model.                                                    *)
(***************************************************************************)
\* Capacity given to a subscriber's channel in place of the source's 100.
ChanCap == 2
\* Number of interface-set requests that succeed in one behaviour.
MaxResets == 1
\* Number of ticks of the scheduler's ticker in one behaviour in which the
\* listener runs beside the scheduler.
MaxTicks == 1
\* Number of ticks of the scheduler's ticker in one behaviour of the
\* scheduler taken alone.
MaxTicksAlone == 2
\* Number of ticks of the browser's ticker in one behaviour.
MaxBrowses == 2
\* Number of datagrams the listener reads in one behaviour.
MaxDatagrams == 2
\* Number of broadcast calls in one behaviour of the hub taken alone.
MaxBroadcasts == 3

(***************************************************************************)
(* Strings.                                                                *)
(***************************************************************************)
IsSep(t) == t \in {".", ":"}

\* Go's string concatenation a + b.
Cat(a, b) ==
    IF a = <<>> THEN b
    ELSE IF b = <<>> THEN a
    ELSE IF ~IsSep(a[Len(a)]) /\ ~IsSep(b[1])
         THEN SubSeq(a, 1, Len(a) - 1) \o <<a[Len(a)] \o b[1]>> \o Tail(b)
         ELSE a \o b

\* strings.Split(s, "."): the pieces of s between the dots.
RECURSIVE SplitDot(_)
SplitDot(s) ==
    IF \A i \in 1..Len(s) : s[i] # "." THEN <<s>>
    ELSE LET i == CHOOSE j \in 1..Len(s) :
                       s[j] = "." /\ \A k \in 1..(j - 1) : s[k] # "."
         IN  <<SubSeq(s, 1, i - 1)>> \o SplitDot(SubSeq(s, i + 1, Len(s)))

\* strings.TrimSuffix(s, "."): s without one trailing dot.
TrimSuffixDot(s) ==
    IF Len(s) > 0 /\ s[Len(s)] = "." THEN SubSeq(s, 1, Len(s) - 1) ELSE s

\* fmt.Sprintf("%d", n)
FormatInt(n) == <<ToString(n)>>

\* net.IP.String(): dotted decimal for an IPv4 address, the colon form for
\* an IPv6 address (kept as the tokens of its text).
IPString(ip) ==
    IF ip.fam = 4
    THEN <<ToString(ip.b[1]), ".", ToString(ip.b[2]), ".",
           ToString(ip.b[3]), ".", ToString(ip.b[4])>>
    ELSE ip.text

\* fmt.Sprintf("%s:%s:%d", ip, serviceType, port)
MakeKey(ip, serviceType, port) ==
    Cat(Cat(Cat(Cat(ip, <<":">>), serviceType), <<":">>), FormatInt(port))

\* The text of a fully qualified name made of the given labels: "a.b.c."
RECURSIVE Fqdn(_)
Fqdn(labels) ==
    IF labels = <<>> THEN <<>>
    ELSE <<Head(labels), ".">> \o Fqdn(Tail(labels))

(***************************************************************************)
(* The network the program talks to.  The zone is what the devices on the  *)
(* link advertise; every exchange may also time out.                       *)
(***************************************************************************)
SshType  == Fqdn(<<"_ssh", "_tcp", "local">>)
HttpType == Fqdn(<<"_http", "_tcp", "local">>)
BoxInst  == Fqdn(<<"box", "_ssh", "_tcp", "local">>)
NasInst  == Fqdn(<<"nas", "_ssh", "_tcp", "local">>)
WebInst  == Fqdn(<<"web", "_http", "_tcp", "local">>)
BoxHost  == Fqdn(<<"box", "local">>)
NasHost  == Fqdn(<<"nas", "local">>)
Addr5    == [fam |-> 4, b |-> <<10, 0, 0, 5>>]
AddrV6   == [fam |-> 6, text |-> <<"fe80", ":", ":", "1">>]

\* Resource records (dns.PTR, dns.SRV, dns.A, and one other kind).
PTR(name, ptr)          == [kind |-> "PTR", name |-> name, ptr |-> ptr]
SRV(name, target, port) == [kind |-> "SRV", name |-> name, target |-> target,
                            port |-> port]
ARec(name, ip)          == [kind |-> "A", name |-> name, a |-> ip]
TXT(name)               == [kind |-> "TXT", name |-> name]

\* box and nas are two names of one device: the same address, the same
\* service type, the same port.  web is another service of that device.
Zone ==
    << PTR(SshType, BoxInst), PTR(SshType, NasInst), PTR(HttpType, WebInst),
       SRV(BoxInst, BoxHost, 22), SRV(NasInst, NasHost, 22),
       SRV(WebInst, BoxHost, 80),
       ARec(BoxHost, Addr5), ARec(NasHost, Addr5) >>

\* The answer section of the response a responder gives to a question.
RECURSIVE Matching(_, _, _)
Matching(rrs, name, kind) ==
    IF rrs = <<>> THEN <<>>
    ELSE IF Head(rrs).name = name /\ Head(rrs).kind = kind
         THEN <<Head(rrs)>> \o Matching(Tail(rrs), name, kind)
         ELSE Matching(Tail(rrs), name, kind)

\* What c.Exchange can return: an error (a timeout), or a message.
Timeout == [err |-> TRUE, answer |-> <<>>]
Reply(answer) == [err |-> FALSE, answer |-> answer]
Replies(name, kind, mayFail) ==
    (IF mayFail THEN {Timeout} ELSE {}) \cup {Reply(Matching(Zone, name, kind))}

\* What net.LookupIP(hostname) can return: an error, or the addresses of
\* the host, an IPv6 address first.
LookupErr == [err |-> TRUE, ips |-> <<>>]
RECURSIVE AddrsOf(_)
AddrsOf(rrs) ==
    IF rrs = <<>> THEN <<>> ELSE <<Head(rrs).a>> \o AddrsOf(Tail(rrs))
LookupReplies(hostname, mayFail) ==
    (IF mayFail THEN {LookupErr} ELSE {})
    \cup {[err |-> FALSE,
           ips |-> <<AddrV6>>
                   \o AddrsOf(Matching(Zone, Cat(hostname, <<".">>), "A"))]}

(***************************************************************************)
(* Pure parts of the code.                                                 *)
(***************************************************************************)
NoString == <<>>

\* The first record of the given kind in an answer section, if any.
HasKind(answer, kind) == \E i \in 1..Len(answer) : answer[i].kind = kind
FirstOfKind(answer, kind) ==
    answer[CHOOSE i \in 1..Len(answer) :
               answer[i].kind = kind
               /\ \A j \in 1..(i - 1) : answer[j].kind # kind]

\* resolveHostIP, given what the multicast exchange for the A record
\* returned (mr) and what net.LookupIP would return (lr).
HasV4(ips) == \E i \in 1..Len(ips) : ips[i].fam = 4
FirstV4(ips) ==
    ips[CHOOSE i \in 1..Len(ips) :
            ips[i].fam = 4 /\ \A j \in 1..(i - 1) : ips[j].fam # 4]
\* A resolver for which no multicast exchange ever gives the address.
MulticastNeverAnswered(mr) == FALSE

\* err == nil && in != nil, and the range over in.Answer finds an A record.
MulticastAnswered(mr) == ~mr.err /\ HasKind(mr.answer, "A")

ResolveHostIP(mr, lr) ==
    IF MulticastAnswered(mr)
    THEN IPString(FirstOfKind(mr.answer, "A").a)
    ELSE IF lr.err THEN NoString
    ELSE IF HasV4(lr.ips) THEN IPString(FirstV4(lr.ips))
    ELSE NoString

\* A test that lets the empty address through.
ResolvedAlways(ip) == TRUE

\* if ip == "" { return } and its like: whether an address was found.
Resolved(ip) == ip # NoString

\* An MDNSService whose Host keeps the target as the SRV record gives it.
ServiceOfQueryRaw(host, serviceName, serviceType, port, ip) ==
    [name |-> SplitDot(serviceName)[1], type |-> serviceType,
     host |-> host, ip |-> ip, port |-> port]

\* The MDNSService queryHostIP builds (Timestamp left out: no claim reads it).
ServiceOfQuery(host, serviceName, serviceType, port, ip) ==
    [name |-> SplitDot(serviceName)[1], type |-> serviceType,
     host |-> TrimSuffixDot(host), ip |-> ip, port |-> port]

\* The MDNSService the listener builds from an unsolicited SRV record.
ServiceOfSRV(record, ip) ==
    [name |-> SplitDot(record.name)[1], type |-> record.name,
     host |-> TrimSuffixDot(record.target), ip |-> ip, port |-> record.port]

\* The MDNSService the browser builds from an mdns.ServiceEntry.
ServiceOfEntry(entry, serviceType, ip) ==
    [name |-> IF entry.name = NoString THEN entry.host ELSE entry.name,
     type |-> Cat(Cat(<<"_">>, serviceType), <<".", "local", ".">>),
     host |-> entry.host, ip |-> ip, port |-> entry.port]

\* A response that announces a retraction.
Retraction(service) == [service |-> service, removed |-> TRUE]

\* &DiscoveryResponse{Service: *service, Removed: false}
DiscoveryResponse(service) == [service |-> service, removed |-> FALSE]

\* A send that enqueues whatever the channel holds.
UnboundedSend(buf, response) == Append(buf, response)

\* The select in broadcast: send if the channel has room, else skip.
NonBlockingSend(buf, response) ==
    IF Len(buf) < ChanCap THEN Append(buf, response) ELSE buf

(***************************************************************************)
(* State.                                                                  *)
(***************************************************************************)
\* Number of stream messages the frontend receives in one behaviour.
MaxMessages == 4
\* Number of /discover connections in one behaviour.
MaxChans == 2
Chans == 1..MaxChans

\* The goroutines that resolve and broadcast: the multicast listener, the
\* ticker goroutine of startMDNSDiscovery, and two consumer goroutines of
\* one browseServiceType loop (those of two consecutive ticks).
Consumers == {"consumer1", "consumer2"}
Loops == {"listener", "scheduler"} \cup Consumers

\* The goroutines net/http runs the /api/interfaces/set handler and the
\* /api/interfaces handler in, one request of each at a time.
Handlers == {"sethandler", "listhandler"}

\* Every goroutine that has a position: the loops, the browseServiceType
\* goroutine and the handlers.
Procs == Loops \cup {"browser"} \cup Handlers

VARIABLES
    seen,          \* server.seen: the keys mapped to true
    currentIface,  \* server.currentIface
    clients,       \* server.clients: the registered channels
    rlock,         \* the goroutines holding server.mu.RLock
    chanBuf,       \* the buffered content of each response channel
    chanClosed,    \* whether close() was called on the channel
    hpc,           \* where each Discover handler is
    pc,            \* where each loop is
    loc,           \* the local variables of each loop
    panicked,      \* the process died of a run-time panic
    nticks,        \* ticks taken by each ticker so far
    nread,         \* datagrams read by the listener so far
    entries,       \* the entriesChan of each browser consumer
    lossy,         \* environment: whether exchanges and lookups can fail
    session,       \* history: number of resets of seen so far
    refused,       \* history: the keys an admission has rejected
    reply,         \* the last response the HTTP server has written
    listed,        \* the last body the /api/interfaces handler has built
    resolving,     \* a call of resolveHostIP taken alone, step by step
    published,     \* history: the bag of broadcast calls made
    hist,          \* history: what each broadcast call in progress has done
    stream,        \* history: what each subscriber has been sent and when
    front          \* the page of the frontend: App.svelte's variables

vars == <<seen, currentIface, clients, rlock, chanBuf, chanClosed, hpc, pc,
          loc, panicked, nticks, nread, entries, lossy, session, refused,
          reply, listed, resolving, published, hist, stream, front>>

hubVars == <<clients, rlock, chanBuf, chanClosed, hpc, panicked, stream>>
auxVars == <<listed, resolving, front>>
discVars == <<seen, currentIface, nticks, nread, entries, lossy, session,
              reply, auxVars>>

\* An HTTP request: the method, the path and what the body decodes to.
\* A body is undecodable, or a JSON object with or without "interface".
Request(method, path, body) ==
    [method |-> method, path |-> path, body |-> body]
Undecodable == [kind |-> "undecodable", has |-> FALSE, name |-> ""]
NoName      == [kind |-> "object", has |-> FALSE, name |-> ""]
Named(n)    == [kind |-> "object", has |-> TRUE, name |-> n]
NoRequest   == Request("", "", Undecodable)
SetPath     == "/api/interfaces/set"
Post(n)     == Request("POST", SetPath, Named(n))

NoLocals ==
    [answers |-> <<>>, ptrs |-> <<>>, srvs |-> <<>>, idx |-> 0,
     serviceName |-> NoString, serviceType |-> NoString,
     host |-> NoString, port |-> 0, inst |-> NoString,
     key |-> NoString, ev |-> <<>>, adm |-> 0, todo |-> {}, ret |-> "none",
     err |-> "nil", born |-> 0]

NoHist == [phase |-> "none", room |-> {}, sent |-> {}, quiet |-> TRUE]

\* The history of the subscribers' streams.  For each channel: got, the
\* responses its handler has received, in order; during, the responses of the
\* broadcast calls that took the read lock while the channel was registered;
\* before and at, server.seen and the session when it was registered.  The
\* history is kept in the behaviours that start with on = TRUE.
NoStream ==
    [on |-> FALSE,
     got |-> [c \in Chans |-> <<>>],
     during |-> [c \in Chans |-> {}],
     before |-> [c \in Chans |-> {}],
     at |-> [c \in Chans |-> 0]]

\* The page before onMount: no services, no EventSource.  last and received
\* are history: the last message handled and how many were.
NoFront ==
    [services |-> <<>>, source |-> "none", connected |-> FALSE,
     loading |-> FALSE, last |-> [kind |-> "none"], received |-> 0]

\* No body built yet by the /api/interfaces handler.
NoListing == [status |-> 0, interfaces |-> <<>>, current |-> ""]

\* No call of resolveHostIP is followed on its own.
NoResolution ==
    [at |-> "none", mr |-> [err |-> TRUE, answer |-> <<>>],
     lr |-> [err |-> TRUE, ips |-> <<>>], ip |-> <<>>, lookups |-> 0]

\* NewMDNSServer, before any goroutine has run.
InitServer ==
    /\ seen = {}
    /\ currentIface = "en5"
    /\ clients = {}
    /\ rlock = {}
    /\ chanBuf = [c \in Chans |-> <<>>]
    /\ chanClosed = [c \in Chans |-> FALSE]
    /\ hpc = [c \in Chans |-> "idle"]
    /\ panicked = FALSE
    /\ loc = [p \in Loops |-> NoLocals]
    /\ nticks = [t \in {"scheduler", "browser"} |-> 0]
    /\ nread = 0
    /\ entries = [c \in Consumers |-> [buf |-> <<>>, closed |-> TRUE]]
    /\ session = 0
    /\ refused = {}
    /\ reply = [req |-> NoRequest, status |-> 0]
    /\ listed = NoListing
    /\ published = EmptyBag
    /\ hist = [p \in Loops |-> NoHist]

\* server.mu is held by a writer: the /api/interfaces/set handler is inside
\* its critical section.  Every other critical section with Lock is one
\* step of the model.
WLocked == pc["sethandler"] \in {"name", "seen", "unlock"}

(***************************************************************************)
(* The hub: broadcast, registerClient, unregisterClient, Discover.         *)
(***************************************************************************)
\* The channels broadcast ranges over: s.clients, read under RLock.
\* A registry that keeps every channel ever registered.
BroadcastTargetsAll == {c \in Chans : hpc[c] # "idle"}

BroadcastTargets == clients

\* A step of another goroutine on the channels or the registry: it ends
\* the quiet of every broadcast call in progress.
Disturb(p) ==
    [q \in Loops |->
        IF q # p /\ hist[q].phase = "running"
        THEN [hist[q] EXCEPT !.quiet = FALSE] ELSE hist[q]]

\* broadcast: s.mu.RLock(), which waits while a writer holds the mutex.
BroadcastRLock(p) ==
    /\ ~panicked
    /\ pc[p] = "broadcast"
    /\ ~WLocked
    /\ rlock' = rlock \cup {p}
    /\ pc' = [pc EXCEPT ![p] = "range"]
    /\ loc' = [loc EXCEPT ![p].todo = BroadcastTargets]
    /\ published' = published (+) SetToBag({[ev |-> loc[p].ev,
                                               key |-> loc[p].key,
                                               inst |-> loc[p].inst,
                                               session |-> loc[p].adm]})
    /\ hist' = [hist EXCEPT ![p] =
                   [phase |-> "running",
                    room |-> {c \in BroadcastTargets :
                                 Len(chanBuf[c]) < ChanCap},
                    sent |-> {}, quiet |-> TRUE]]
    /\ stream' = IF ~stream.on THEN stream
                 ELSE [stream EXCEPT !.during =
                          [c \in Chans |->
                              IF c \in clients
                              THEN @[c] \cup {loc[p].ev} ELSE @[c]]]
    /\ UNCHANGED <<clients, chanBuf, chanClosed, hpc, panicked, refused>>
    /\ UNCHANGED discVars

\* broadcast: one iteration of the range over s.clients.  A send on a
\* closed channel is a run-time panic, also inside a select with default.
BroadcastVisit(p) ==
    /\ ~panicked
    /\ pc[p] = "range"
    /\ \E ch \in loc[p].todo :
          IF chanClosed[ch]
          THEN /\ panicked' = TRUE
               /\ hist' = [hist EXCEPT ![p].phase = "panicked"]
               /\ UNCHANGED <<chanBuf, loc>>
          ELSE /\ chanBuf' = [chanBuf EXCEPT
                                 ![ch] = NonBlockingSend(@, loc[p].ev)]
               /\ loc' = [loc EXCEPT ![p].todo = @ \ {ch}]
               /\ hist' = [Disturb(p) EXCEPT ![p].sent =
                              IF chanBuf'[ch] = Append(chanBuf[ch], loc[p].ev)
                              THEN @ \cup {ch} ELSE @]
               /\ UNCHANGED panicked
    /\ UNCHANGED <<clients, rlock, chanClosed, hpc, pc, published, refused,
                   stream>>
    /\ UNCHANGED discVars

\* broadcast: the range is over, the deferred s.mu.RUnlock() runs and the
\* call returns to the loop.
BroadcastRUnlock(p) ==
    /\ ~panicked
    /\ pc[p] = "range"
    /\ loc[p].todo = {}
    /\ rlock' = rlock \ {p}
    /\ pc' = [pc EXCEPT ![p] = loc[p].ret]
    /\ loc' = [loc EXCEPT ![p].ev = <<>>, ![p].key = NoString,
                          ![p].inst = NoString, ![p].adm = 0,
                          ![p].ret = "none"]
    /\ hist' = [hist EXCEPT ![p] = NoHist]
    /\ UNCHANGED <<clients, chanBuf, chanClosed, hpc, panicked, published,
                   refused, stream>>
    /\ UNCHANGED discVars

\* A Discover that hands the new subscriber what was broadcast before.
ConnectReplay(c) ==
    /\ ~panicked
    /\ hpc[c] = "idle"
    /\ rlock = {}
    /\ ~WLocked
    /\ clients' = clients \cup {c}
    /\ hpc' = [hpc EXCEPT ![c] = "streaming"]
    /\ chanBuf' = [chanBuf EXCEPT ![c] =
                      IF published = EmptyBag THEN <<>>
                      ELSE <<(CHOOSE e \in BagToSet(published) : TRUE).ev>>]
    /\ hist' = Disturb("handler")
    /\ stream' = IF ~stream.on THEN stream
                 ELSE [stream EXCEPT !.before[c] = seen, !.at[c] = session]
    /\ UNCHANGED <<rlock, chanClosed, panicked, pc, loc, published,
                   refused>>
    /\ UNCHANGED discVars

\* Discover: make the channel and registerClient (Lock ... Unlock).
Connect(c) ==
    /\ ~panicked
    /\ hpc[c] = "idle"
    /\ rlock = {}
    /\ ~WLocked
    /\ clients' = clients \cup {c}
    /\ hpc' = [hpc EXCEPT ![c] = "streaming"]
    /\ hist' = Disturb("handler")
    /\ stream' = IF ~stream.on THEN stream
                 ELSE [stream EXCEPT !.before[c] = seen, !.at[c] = session]
    /\ UNCHANGED <<rlock, chanBuf, chanClosed, panicked, pc, loc, published,
                   refused>>
    /\ UNCHANGED discVars

\* Discover for a ResponseWriter that is no http.Flusher: the channel is
\* made and registered, the deferred calls are set up, and the handler is
\* about to answer "Streaming unsupported" and return.
ConnectNoFlusher(c) ==
    /\ ~panicked
    /\ hpc[c] = "idle"
    /\ rlock = {}
    /\ ~WLocked
    /\ clients' = clients \cup {c}
    /\ hpc' = [hpc EXCEPT ![c] = "noflusher"]
    /\ hist' = Disturb("handler")
    /\ stream' = IF ~stream.on THEN stream
                 ELSE [stream EXCEPT !.before[c] = seen, !.at[c] = session]
    /\ UNCHANGED <<rlock, chanBuf, chanClosed, panicked, pc, loc, published,
                   refused>>
    /\ UNCHANGED discVars

\* A receive that takes the newest response of the channel, not the oldest.
DeliverNewest(c) ==
    /\ ~panicked
    /\ hpc[c] = "streaming"
    /\ chanBuf[c] # <<>>
    /\ chanBuf' = [chanBuf EXCEPT ![c] = SubSeq(@, 1, Len(@) - 1)]
    /\ stream' = IF ~stream.on THEN stream
                 ELSE [stream EXCEPT
                          !.got[c] = Append(@, chanBuf[c][Len(chanBuf[c])])]
    /\ hist' = Disturb("handler")
    /\ UNCHANGED <<clients, rlock, chanClosed, hpc, panicked, pc, loc,
                   published, refused>>
    /\ UNCHANGED discVars

\* Discover: the select receives a response and writes it to the client.
Deliver(c) ==
    /\ ~panicked
    /\ hpc[c] = "streaming"
    /\ chanBuf[c] # <<>>
    /\ chanBuf' = [chanBuf EXCEPT ![c] = Tail(@)]
    /\ stream' = IF ~stream.on THEN stream
                 ELSE [stream EXCEPT !.got[c] = Append(@, Head(chanBuf[c]))]
    /\ hist' = Disturb("handler")
    /\ UNCHANGED <<clients, rlock, chanClosed, hpc, panicked, pc, loc,
                   published, refused>>
    /\ UNCHANGED discVars

\* Discover: the handler returns, because the request context is done or
\* because streaming is unsupported; the deferred calls run last in, first
\* out, so close(responseChan) is first.
CloseChan(c) ==
    /\ ~panicked
    /\ hpc[c] \in {"streaming", "noflusher"}
    /\ chanClosed' = [chanClosed EXCEPT ![c] = TRUE]
    /\ hpc' = [hpc EXCEPT ![c] = "closed"]
    /\ hist' = Disturb("handler")
    /\ UNCHANGED <<clients, rlock, chanBuf, panicked, pc, loc, published,
                   refused, stream>>
    /\ UNCHANGED discVars

\* Discover: the deferred unregisterClient (Lock ... Unlock) runs second.
Unregister(c) ==
    /\ ~panicked
    /\ hpc[c] = "closed"
    /\ rlock = {}
    /\ ~WLocked
    /\ clients' = clients \ {c}
    /\ hpc' = [hpc EXCEPT ![c] = "done"]
    /\ hist' = Disturb("handler")
    /\ UNCHANGED <<rlock, chanBuf, chanClosed, panicked, pc, loc, published,
                   refused, stream>>
    /\ UNCHANGED discVars

(***************************************************************************)
(* The resolution chain: queryServiceDetails and queryHostIP, run by the   *)
(* listener (for a PTR answer) and by the scheduler.                       *)
(***************************************************************************)
\* Where queryServiceDetails returns to in its caller.
AfterDetails(p) == IF p = "listener" THEN "answers" ELSE "ptrs"

\* An admission that lets every key in, whatever server.seen holds.
AdmitsAny(seenKeys, key) == TRUE

\* The test of server.seen[key]: whether the key is let in.
Admits(seenKeys, key) == key \notin seenKeys

\* A chain that starts on the address of the instance name itself, without
\* the exchange for the SRV record.
QueryServiceDetailsEarly(p) ==
    /\ ~panicked
    /\ pc[p] = "details"
    /\ pc' = [pc EXCEPT ![p] = "hostip"]
    /\ loc' = [loc EXCEPT ![p].host = loc[p].serviceName]
    /\ UNCHANGED <<hubVars, discVars, refused, published, hist>>

\* queryServiceDetails: the exchange for the SRV record of serviceName.
QueryServiceDetails(p) ==
    /\ ~panicked
    /\ pc[p] = "details"
    /\ \E r \in Replies(loc[p].serviceName, "SRV", lossy) :
          IF r.err
          THEN /\ pc' = [pc EXCEPT ![p] = AfterDetails(p)]
               /\ loc' = [loc EXCEPT ![p].serviceName = NoString,
                                     ![p].serviceType =
                                         IF p = "listener" THEN NoString ELSE @]
          ELSE /\ pc' = [pc EXCEPT ![p] = "srvs"]
               /\ loc' = [loc EXCEPT ![p].srvs = r.answer]
    /\ UNCHANGED <<hubVars, discVars, refused, published, hist>>

\* queryServiceDetails: the range over srvIn.Answer, calling queryHostIP for
\* each SRV record.
NextSRV(p) ==
    /\ ~panicked
    /\ pc[p] = "srvs"
    /\ IF loc[p].srvs = <<>>
       THEN /\ pc' = [pc EXCEPT ![p] = AfterDetails(p)]
            /\ loc' = [loc EXCEPT ![p].serviceName = NoString,
                                  ![p].serviceType =
                                      IF p = "listener" THEN NoString ELSE @]
       ELSE LET srv == Head(loc[p].srvs) IN
            IF srv.kind = "SRV"
            THEN /\ pc' = [pc EXCEPT ![p] = "hostip"]
                 /\ loc' = [loc EXCEPT ![p].srvs = Tail(@),
                                       ![p].host = srv.target,
                                       ![p].port = srv.port]
            ELSE /\ loc' = [loc EXCEPT ![p].srvs = Tail(@)]
                 /\ UNCHANGED pc
    /\ UNCHANGED <<hubVars, discVars, refused, published, hist>>

\* No address was found: the candidate is given up (return, or continue)
\* and the loop goes on with what follows it.
GiveUp(p) ==
    /\ ~panicked
    /\ pc[p] = "noaddr"
    /\ pc' = [pc EXCEPT ![p] = loc[p].ret]
    /\ loc' = [loc EXCEPT ![p].ret = "none"]
    /\ UNCHANGED <<hubVars, discVars, refused, published, hist>>

\* queryHostIP up to the lock: resolveHostIP, the name and the key.
QueryHostIP(p) ==
    /\ ~panicked
    /\ pc[p] = "hostip"
    /\ LET hostname == TrimSuffixDot(loc[p].host) IN
       \E mr \in Replies(Cat(hostname, <<".">>), "A", lossy),
          lr \in LookupReplies(hostname, lossy) :
          LET ip == ResolveHostIP(mr, lr) IN
          IF ~Resolved(ip)
          THEN /\ pc' = [pc EXCEPT ![p] = "noaddr"]
               /\ loc' = [loc EXCEPT ![p].host = NoString, ![p].port = 0,
                                     ![p].ret = "srvs"]
          ELSE /\ pc' = [pc EXCEPT ![p] = "admit"]
               /\ loc' = [loc EXCEPT
                     ![p].host = NoString, ![p].port = 0,
                     ![p].inst = loc[p].serviceName,
                     ![p].key = MakeKey(ip, loc[p].serviceType, loc[p].port),
                     ![p].ev = DiscoveryResponse(
                                   ServiceOfQuery(loc[p].host,
                                                  loc[p].serviceName,
                                                  loc[p].serviceType,
                                                  loc[p].port, ip))]
    /\ UNCHANGED <<hubVars, discVars, refused, published, hist>>

\* A map that holds the last key only.
RememberOnly(seenKeys, key) == {key}

\* server.seen[key] = true
Remember(seenKeys, key) == seenKeys \cup {key}

\* queryHostIP: Lock, test server.seen[key], set it, Unlock, in one
\* critical section.
Admit(p) ==
    /\ ~panicked
    /\ pc[p] = "admit"
    /\ rlock = {}
    /\ ~WLocked
    /\ IF Admits(seen, loc[p].key)
       THEN /\ seen' = Remember(seen, loc[p].key)
            /\ pc' = [pc EXCEPT ![p] = "broadcast"]
            /\ loc' = [loc EXCEPT ![p].ret = "srvs", ![p].adm = session]
            /\ UNCHANGED refused
       ELSE /\ pc' = [pc EXCEPT ![p] = "srvs"]
            /\ loc' = [loc EXCEPT ![p].key = NoString, ![p].ev = <<>>,
                                  ![p].inst = NoString]
            /\ refused' = refused \cup {loc[p].key}
            /\ UNCHANGED seen
    /\ UNCHANGED <<hubVars, currentIface, nticks, nread, entries, lossy,
                   session, reply, auxVars, published, hist>>

(***************************************************************************)
(* The multicast listener: listenMDNSMulticast.                            *)
(***************************************************************************)
\* What conn.ReadFromUDP and msg.Unpack can give: a read error, bytes that
\* are no DNS message, or a message with an answer section.
ReadErr   == [kind |-> "readerr", answer |-> <<>>]
Malformed == [kind |-> "malformed", answer |-> <<>>]
Msg(answer) == [kind |-> "msg", answer |-> answer]
Datagrams ==
    {ReadErr, Malformed,
     Msg(<<PTR(SshType, NasInst)>>),
     Msg(<<PTR(SshType, BoxInst), SRV(BoxInst, BoxHost, 22), TXT(BoxInst),
           ARec(BoxHost, Addr5)>>)}

\* The category the listener gives a service it learns from an SRV record.
TypeOfSRV(record) == record.name

\* net.ListenMulticastUDP: on an error the goroutine logs and returns.
ListenerStart ==
    /\ ~panicked
    /\ pc["listener"] = "listen"
    /\ \E ok \in BOOLEAN :
          pc' = [pc EXCEPT !["listener"] = IF ok THEN "recv" ELSE "exited"]
    /\ UNCHANGED <<hubVars, discVars, loc, refused, published, hist>>

\* A listener that returns on a read error or an invalid message.
AfterBadReadReturn == "exited"

\* continue: after a read error or an invalid message the loop reads again.
AfterBadRead == "recv"

\* ReadFromUDP and Unpack: a read error or an invalid message is skipped.
\* err is the error of the read or of the unpacking; born is the session
\* in which the datagram is read.
ListenerRead(d) ==
    /\ ~panicked
    /\ pc["listener"] = "recv"
    /\ nread < MaxDatagrams
    /\ nread' = nread + 1
    /\ IF d.kind = "msg"
       THEN /\ pc' = [pc EXCEPT !["listener"] = "answers"]
            /\ loc' = [loc EXCEPT !["listener"].answers = d.answer,
                                  !["listener"].err = "nil",
                                  !["listener"].born = session]
       ELSE /\ pc' = [pc EXCEPT !["listener"] = AfterBadRead]
            /\ loc' = [loc EXCEPT !["listener"].err = d.kind]
    /\ UNCHANGED <<hubVars, seen, currentIface, nticks, entries, lossy,
                   session, reply, auxVars, refused, published, hist>>

\* A type switch whose default case starts a location lookup.
AnswerCaseDefaultLookup(record) ==
    IF record.kind = "SRV" /\ Len(SplitDot(record.name)) >= 2
    THEN "srvresolve" ELSE "details"

\* The type switch on an answer: where the listener goes for the record.
\* A record that matches no case leaves it in the range over msg.Answer.
AnswerCase(record) ==
    IF record.kind = "PTR" THEN "details"
    ELSE IF record.kind = "SRV" /\ Len(SplitDot(record.name)) >= 2
         THEN "srvresolve" ELSE "answers"

\* The range over msg.Answer with its type switch.
ListenerNextAnswer ==
    /\ ~panicked
    /\ pc["listener"] = "answers"
    /\ IF loc["listener"].answers = <<>>
       THEN /\ pc' = [pc EXCEPT !["listener"] = "recv"]
            /\ UNCHANGED loc
       ELSE LET record == Head(loc["listener"].answers) IN
            /\ pc' = [pc EXCEPT !["listener"] = AnswerCase(record)]
            /\ CASE record.kind = "PTR" ->
                     loc' = [loc EXCEPT
                                !["listener"].answers = Tail(@),
                                !["listener"].serviceName = record.ptr,
                                !["listener"].serviceType = record.name]
                [] record.kind = "SRV" /\ Len(SplitDot(record.name)) >= 2 ->
                     loc' = [loc EXCEPT
                                !["listener"].answers = Tail(@),
                                !["listener"].srvs = <<record>>]
                [] OTHER ->
                     loc' = [loc EXCEPT !["listener"].answers = Tail(@)]
    /\ UNCHANGED <<hubVars, discVars, refused, published, hist>>

\* The SRV case: resolveHostIP of the target, then the name and the key.
SrvResolve ==
    /\ ~panicked
    /\ pc["listener"] = "srvresolve"
    /\ LET record == Head(loc["listener"].srvs)
           hostname == TrimSuffixDot(record.target) IN
       \E mr \in Replies(Cat(hostname, <<".">>), "A", lossy),
          lr \in LookupReplies(hostname, lossy) :
          LET ip == ResolveHostIP(mr, lr) IN
          IF ~Resolved(ip)
          THEN /\ pc' = [pc EXCEPT !["listener"] = "noaddr"]
               /\ loc' = [loc EXCEPT !["listener"].srvs = <<>>,
                                     !["listener"].ret = "answers"]
          ELSE /\ pc' = [pc EXCEPT !["listener"] = "check"]
               /\ loc' = [loc EXCEPT
                     !["listener"].srvs = <<>>,
                     !["listener"].inst = record.name,
                     !["listener"].key =
                         MakeKey(ip, TypeOfSRV(record), record.port),
                     !["listener"].ev =
                         DiscoveryResponse(ServiceOfSRV(record, ip))]
    /\ UNCHANGED <<hubVars, discVars, refused, published, hist>>

\* A check of server.seen[key] in a critical section of its own
\* (Lock, read, Unlock), as the SRV case and the browser do it.
CheckSeen(p, back) ==
    /\ ~panicked
    /\ pc[p] = "check"
    /\ rlock = {}
    /\ ~WLocked
    /\ IF ~Admits(seen, loc[p].key)
       THEN /\ pc' = [pc EXCEPT ![p] = back]
            /\ loc' = [loc EXCEPT ![p].key = NoString, ![p].ev = <<>>,
                                  ![p].inst = NoString]
            /\ refused' = refused \cup {loc[p].key}
       ELSE /\ pc' = [pc EXCEPT ![p] = "set"]
            /\ UNCHANGED <<loc, refused>>
    /\ UNCHANGED <<hubVars, discVars, published, hist>>

\* The set of server.seen[key] in a second critical section, and on to
\* broadcast.
SetSeen(p, back) ==
    /\ ~panicked
    /\ pc[p] = "set"
    /\ rlock = {}
    /\ ~WLocked
    /\ seen' = Remember(seen, loc[p].key)
    /\ pc' = [pc EXCEPT ![p] = "broadcast"]
    /\ loc' = [loc EXCEPT ![p].ret = back, ![p].adm = session]
    /\ UNCHANGED <<hubVars, currentIface, nticks, nread, entries, lossy,
                   session, reply, auxVars, refused, published, hist>>

(***************************************************************************)
(* The scheduler: the ticker goroutine of startMDNSDiscovery and           *)
(* discoverService.                                                        *)
(***************************************************************************)
ServiceTypes ==
    << Fqdn(<<"_http", "_tcp", "local">>),
       Fqdn(<<"_https", "_tcp", "local">>),
       Fqdn(<<"_ssh", "_tcp", "local">>),
       Fqdn(<<"_sftp", "_tcp", "local">>),
       Fqdn(<<"_smb", "_tcp", "local">>),
       Fqdn(<<"_afpovertcp", "_tcp", "local">>),
       Fqdn(<<"_nfs", "_tcp", "local">>),
       Fqdn(<<"_ldap", "_tcp", "local">>) >>

\* A scheduler whose tick ends at the first query that fails.
AfterFailedQueryStop(i) == Len(ServiceTypes) + 1

\* discoverService returns on an error of the exchange, and the range over
\* serviceTypes goes on with the next type.
AfterFailedQuery(i) == i + 1

\* The ticks the model follows the scheduler for.
TickBound == IF pc["listener"] = "off" THEN MaxTicksAlone ELSE MaxTicks

\* A tick of the 5-second ticker: the range over serviceTypes starts.
SchedulerTick ==
    /\ ~panicked
    /\ pc["scheduler"] = "tickwait"
    /\ nticks["scheduler"] < TickBound
    /\ nticks' = [nticks EXCEPT !["scheduler"] = @ + 1]
    /\ pc' = [pc EXCEPT !["scheduler"] = "discover"]
    /\ loc' = [loc EXCEPT !["scheduler"].idx = 1,
                          !["scheduler"].born = session]
    /\ UNCHANGED <<hubVars, seen, currentIface, nread, entries, lossy,
                   session, reply, auxVars, refused, published, hist>>

\* discoverService for the next service type: the PTR exchange.  After the
\* last type the goroutine waits for the next tick.
DiscoverService ==
    /\ ~panicked
    /\ pc["scheduler"] = "discover"
    /\ LET i == loc["scheduler"].idx IN
       IF i > Len(ServiceTypes)
       THEN /\ pc' = [pc EXCEPT !["scheduler"] = "tickwait"]
            /\ loc' = [loc EXCEPT !["scheduler"].idx = 0]
       ELSE \E r \in Replies(ServiceTypes[i], "PTR", lossy) :
               IF r.err
               THEN /\ loc' = [loc EXCEPT
                                  !["scheduler"].idx = AfterFailedQuery(i),
                                  !["scheduler"].err = "timeout"]
                    /\ UNCHANGED pc
               ELSE /\ pc' = [pc EXCEPT !["scheduler"] = "ptrs"]
                    /\ loc' = [loc EXCEPT
                                  !["scheduler"].ptrs = r.answer,
                                  !["scheduler"].err = "nil",
                                  !["scheduler"].serviceType = ServiceTypes[i]]
    /\ UNCHANGED <<hubVars, discVars, refused, published, hist>>

\* discoverService: the range over in.Answer, calling queryServiceDetails
\* for each PTR record.
NextPTR ==
    /\ ~panicked
    /\ pc["scheduler"] = "ptrs"
    /\ IF loc["scheduler"].ptrs = <<>>
       THEN /\ pc' = [pc EXCEPT !["scheduler"] = "discover"]
            /\ loc' = [loc EXCEPT !["scheduler"].idx = @ + 1,
                                  !["scheduler"].serviceType = NoString]
       ELSE LET ptr == Head(loc["scheduler"].ptrs) IN
            IF ptr.kind = "PTR"
            THEN /\ pc' = [pc EXCEPT !["scheduler"] = "details"]
                 /\ loc' = [loc EXCEPT !["scheduler"].ptrs = Tail(@),
                                       !["scheduler"].serviceName = ptr.ptr]
            ELSE /\ loc' = [loc EXCEPT !["scheduler"].ptrs = Tail(@)]
                 /\ UNCHANGED pc
    /\ UNCHANGED <<hubVars, discVars, refused, published, hist>>

(***************************************************************************)
(* The periodic browser: one browseServiceType goroutine and the consumer  *)
(* goroutines it starts, one per tick.                                     *)
(***************************************************************************)
\* The service type this browseServiceType goroutine was started with.
BrowseType == <<"_ssh", ".", "_tcp">>

\* mdns.ServiceEntry values mdns.Lookup can send for the type.
Entry(name, host, v4, v6, port) ==
    [name |-> name, host |-> host, v4 |-> v4, v6 |-> v6, port |-> port]
NoAddr == [fam |-> 0]
BoxEntry == Entry(BoxInst, BoxHost, Addr5, NoAddr, 22)
NasEntry == Entry(NasInst, NasHost, Addr5, NoAddr, 22)
V6Entry  == Entry(NoString, BoxHost, NoAddr, AddrV6, 22)
NoAddrEntry == Entry(BoxInst, BoxHost, NoAddr, NoAddr, 22)
LookupResults ==
    {<<>>, <<BoxEntry>>, <<BoxEntry, NasEntry>>, <<NoAddrEntry, V6Entry>>}

\* The ip the consumer takes from an entry: AddrV4, else AddrV6, else "".
EntryIP(entry) ==
    IF entry.v4 # NoAddr THEN IPString(entry.v4)
    ELSE IF entry.v6 # NoAddr THEN IPString(entry.v6)
    ELSE NoString

\* A tick of the 10-second ticker: make entriesChan and start the consumer.
BrowserTick(c) ==
    /\ ~panicked
    /\ pc["browser"] = "tickwait"
    /\ nticks["browser"] < MaxBrowses
    /\ pc[c] = "off"
    /\ nticks' = [nticks EXCEPT !["browser"] = @ + 1]
    /\ entries' = [entries EXCEPT ![c] = [buf |-> <<>>, closed |-> FALSE]]
    /\ pc' = [pc EXCEPT !["browser"] = "lookup", ![c] = "entries"]
    /\ UNCHANGED <<hubVars, seen, currentIface, nread, lossy, session, reply,
                   auxVars, loc, refused, published, hist>>

\* A loop body that leaves entriesChan open after mdns.Lookup.
BrowserLookupNoClose(c) ==
    /\ ~panicked
    /\ pc["browser"] = "lookup"
    /\ ~entries[c].closed
    /\ \E es \in LookupResults :
          entries' = [entries EXCEPT
                         ![c] = [buf |-> entries[c].buf \o es,
                                 closed |-> FALSE]]
    /\ pc' = [pc EXCEPT !["browser"] = "tickwait"]
    /\ UNCHANGED <<hubVars, seen, currentIface, nticks, nread, lossy,
                   session, reply, auxVars, loc, refused, published, hist>>

\* mdns.Lookup sends what it found on entriesChan and returns after its
\* timeout; close(entriesChan) follows.
BrowserLookup(c) ==
    /\ ~panicked
    /\ pc["browser"] = "lookup"
    /\ ~entries[c].closed
    /\ \E es \in LookupResults :
          entries' = [entries EXCEPT
                         ![c] = [buf |-> entries[c].buf \o es,
                                 closed |-> TRUE]]
    /\ pc' = [pc EXCEPT !["browser"] = "tickwait"]
    /\ UNCHANGED <<hubVars, seen, currentIface, nticks, nread, lossy,
                   session, reply, auxVars, loc, refused, published, hist>>

\* The consumer's range over entriesChan: the next entry, up to the key; the
\* goroutine ends when the channel is closed and drained.
ConsumerNext(c) ==
    /\ ~panicked
    /\ pc[c] = "entries"
    /\ IF entries[c].buf = <<>>
       THEN /\ entries[c].closed
            /\ pc' = [pc EXCEPT ![c] = "off"]
            /\ UNCHANGED <<loc, entries>>
       ELSE LET entry == Head(entries[c].buf)
                ip == EntryIP(entry) IN
            /\ entries' = [entries EXCEPT ![c].buf = Tail(@)]
            /\ IF ~Resolved(ip)
               THEN /\ pc' = [pc EXCEPT ![c] = "noaddr"]
                    /\ loc' = [loc EXCEPT ![c].ret = "entries"]
               ELSE /\ pc' = [pc EXCEPT ![c] = "check"]
                    /\ loc' = [loc EXCEPT
                          ![c].born = session,
                          ![c].inst = entry.name,
                          ![c].key = MakeKey(ip, BrowseType, entry.port),
                          ![c].ev = DiscoveryResponse(
                                        ServiceOfEntry(entry, BrowseType, ip))]
    /\ UNCHANGED <<hubVars, seen, currentIface, nticks, nread, lossy,
                   session, reply, auxVars, refused, published, hist>>

(***************************************************************************)
(* The /api/interfaces/set handler.                                        *)
(***************************************************************************)
\* net.Interfaces() as the handler sees it.
Interfaces ==
    << [name |-> "lo0", mtu |-> 16384, up |-> TRUE],
       [name |-> "en5", mtu |-> 1500, up |-> TRUE],
       [name |-> "en9", mtu |-> 1500, up |-> FALSE] >>

\* An enumeration that lists every interface, up or down.
GetAllInterfaces(ifs) ==
    [i \in 1..Len(ifs) |->
        [name |-> ifs[i].name, mtu |-> FormatInt(ifs[i].mtu)]]

\* getNetworkInterfaces: the name and mtu of the interfaces that are up.
RECURSIVE GetNetworkInterfaces(_)
GetNetworkInterfaces(ifs) ==
    IF ifs = <<>> THEN <<>>
    ELSE IF Head(ifs).up
         THEN <<[name |-> Head(ifs).name, mtu |-> FormatInt(Head(ifs).mtu)]>>
              \o GetNetworkInterfaces(Tail(ifs))
         ELSE GetNetworkInterfaces(Tail(ifs))

\* The interface names requests can carry.
RequestedNames == {"lo0", "en9", "nonexistent0"}

\* The requests sent to /api/interfaces/set: well-formed POSTs, a POST with
\* an empty name, one without the name, one whose body does not decode, a
\* GET and the OPTIONS of a CORS preflight.
SetRequests ==
    {Post(n) : n \in RequestedNames \cup {""}}
    \cup {Request("POST", SetPath, NoName),
          Request("POST", SetPath, Undecodable),
          Request("GET", SetPath, Named("lo0")),
          Request("OPTIONS", SetPath, Named("lo0"))}

\* The handler's loop over getNetworkInterfaces() looking for the name.
Found(ifaceName) ==
    LET ifaces == GetNetworkInterfaces(Interfaces) IN
    \E i \in 1..Len(ifaces) : ifaces[i].name = ifaceName

\* A handler that only requires the "interface" key to be present.
SetInterfaceStatusAnyName(req) ==
    IF req.method = "OPTIONS" THEN 200
    ELSE IF req.method # "POST" THEN 405
    ELSE IF req.body.kind = "undecodable" THEN 400
    ELSE IF ~req.body.has THEN 400
    ELSE IF ~Found(req.body.name) THEN 404
    ELSE 200

\* The status the handler answers with, its early returns in their order.
SetInterfaceStatus(req) ==
    IF req.method = "OPTIONS" THEN 200
    ELSE IF req.method # "POST" THEN 405
    ELSE IF req.body.kind = "undecodable" THEN 400
    ELSE IF ~req.body.has \/ req.body.name = "" THEN 400
    ELSE IF ~Found(req.body.name) THEN 404
    ELSE 200

\* A switch that keeps the map it had.
KeepSeen(old) == old

\* server.seen = make(map[string]bool).
ResetSeen(old) == {}

\* A handler that also drops the subscribers and what they have queued
\* when it switches.
SetInterfaceDropping(req) ==
    /\ ~panicked
    /\ req.path = SetPath
    /\ LET status == SetInterfaceStatus(req) IN
       /\ reply' = [req |-> req, status |-> status]
       /\ IF req.method = "POST" /\ status = 200
          THEN /\ session < MaxResets
               /\ rlock = {}
               /\ ~WLocked
               /\ currentIface' = req.body.name
               /\ seen' = ResetSeen(seen)
               /\ session' = session + 1
               /\ clients' = {}
               /\ chanBuf' = [c \in Chans |-> <<>>]
          ELSE UNCHANGED <<currentIface, seen, session, clients, chanBuf>>
    /\ UNCHANGED <<rlock, chanClosed, hpc, panicked, stream, nticks, nread,
                   entries, lossy, pc, loc, auxVars, refused, published,
                   hist>>

\* The /api/interfaces/set handler: a request that passes every check
\* stores the name and replaces server.seen in one critical section; any
\* other is answered and nothing else happens.
SetInterface(req) ==
    /\ ~panicked
    /\ req.path = SetPath
    /\ LET status == SetInterfaceStatus(req) IN
       /\ reply' = [req |-> req, status |-> status]
       /\ IF req.method = "POST" /\ status = 200
          THEN /\ session < MaxResets
               /\ rlock = {}
               /\ ~WLocked
               /\ currentIface' = req.body.name
               /\ seen' = ResetSeen(seen)
               /\ session' = session + 1
          ELSE UNCHANGED <<currentIface, seen, session>>
    /\ UNCHANGED <<hubVars, nticks, nread, entries, lossy, pc, loc,
                   auxVars, refused, published, hist>>

\* The paths main registers handlers for.
Routes == {"/health", "/api/interfaces", SetPath, "/discover"}

RestartRequest == Request("POST", "/api/restart", NoName)

\* A request under /api that no handler is registered for: corsHandler
\* answers an OPTIONS itself, the mux (or the "/" handler, for the /api
\* prefix) answers anything else with http.NotFound.
ServeUnrouted(req) ==
    /\ ~panicked
    /\ req.path \notin Routes
    /\ reply' = [req |-> req,
                 status |-> IF req.method = "OPTIONS" THEN 200 ELSE 404]
    /\ UNCHANGED <<hubVars, seen, currentIface, session, nticks, nread,
                   entries, lossy, pc, loc, auxVars, refused, published,
                   hist>>

(***************************************************************************)
(* The /api/interfaces/set handler step by step: what SetInterface does in *)
(* one step for a request that passes every check, with the critical       *)
(* section open between the steps.  The request being served is kept in    *)
(* reply, with status 0 until the response is written.                     *)
(***************************************************************************)
\* The checks pass and server.mu.Lock() returns.
SetLock(req) ==
    /\ ~panicked
    /\ pc["sethandler"] = "off"
    /\ req.path = SetPath
    /\ req.method = "POST"
    /\ SetInterfaceStatus(req) = 200
    /\ session < MaxResets
    /\ rlock = {}
    /\ pc' = [pc EXCEPT !["sethandler"] = "name"]
    /\ reply' = [req |-> req, status |-> 0]
    /\ UNCHANGED <<hubVars, seen, currentIface, session, nticks, nread,
                   entries, lossy, loc, auxVars, refused, published, hist>>

\* server.currentIface = ifaceName
SetStoreName ==
    /\ ~panicked
    /\ pc["sethandler"] = "name"
    /\ currentIface' = reply.req.body.name
    /\ pc' = [pc EXCEPT !["sethandler"] = "seen"]
    /\ UNCHANGED <<hubVars, seen, session, nticks, nread, entries, lossy,
                   loc, reply, auxVars, refused, published, hist>>

\* server.seen = make(map[string]bool)
SetStoreSeen ==
    /\ ~panicked
    /\ pc["sethandler"] = "seen"
    /\ seen' = ResetSeen(seen)
    /\ session' = session + 1
    /\ pc' = [pc EXCEPT !["sethandler"] = "unlock"]
    /\ UNCHANGED <<hubVars, currentIface, nticks, nread, entries, lossy,
                   loc, reply, auxVars, refused, published, hist>>

\* server.mu.Unlock() and the response.
SetUnlock ==
    /\ ~panicked
    /\ pc["sethandler"] = "unlock"
    /\ pc' = [pc EXCEPT !["sethandler"] = "off"]
    /\ reply' = [reply EXCEPT !.status = 200]
    /\ UNCHANGED <<hubVars, seen, currentIface, session, nticks, nread,
                   entries, lossy, loc, auxVars, refused, published, hist>>

(***************************************************************************)
(* The /api/interfaces handler.                                            *)
(***************************************************************************)
ListPath == "/api/interfaces"
ListRequests ==
    {Request("GET", ListPath, NoName), Request("OPTIONS", ListPath, NoName)}

\* What a read of a string can give when it runs while the string is being
\* stored: the pointer of one value with the length of the other.
TornName == "torn"

\* The read of server.currentIface, which takes no lock.  A read that runs
\* while the set handler is at its store is a data race: it gives the old
\* name, the new one, or a torn string.
ReadCurrentIface ==
    IF pc["sethandler"] = "name"
    THEN {currentIface, reply.req.body.name, TornName}
    ELSE {currentIface}

\* The handler up to the response map: an OPTIONS is answered at once;
\* otherwise getNetworkInterfaces, whose error is answered with 500.
ListInterfaces(req) ==
    /\ ~panicked
    /\ pc["listhandler"] = "off"
    /\ req.path = ListPath
    /\ IF req.method = "OPTIONS"
       THEN /\ listed' = [NoListing EXCEPT !.status = 200]
            /\ UNCHANGED pc
       ELSE \E ok \in BOOLEAN :
               IF ok
               THEN /\ listed' = [status |-> 0,
                                  interfaces |->
                                      GetNetworkInterfaces(Interfaces),
                                  current |-> ""]
                    /\ pc' = [pc EXCEPT !["listhandler"] = "current"]
               ELSE /\ listed' = [NoListing EXCEPT !.status = 500]
                    /\ UNCHANGED pc
    /\ UNCHANGED <<hubVars, seen, currentIface, session, nticks, nread,
                   entries, lossy, loc, reply, resolving, front, refused,
                   published, hist>>

\* "current": server.currentIface in the response map, and the response.
ListCurrent ==
    /\ ~panicked
    /\ pc["listhandler"] = "current"
    /\ \E name \in ReadCurrentIface :
          listed' = [listed EXCEPT !.current = name, !.status = 200]
    /\ pc' = [pc EXCEPT !["listhandler"] = "off"]
    /\ UNCHANGED <<hubVars, seen, currentIface, session, nticks, nread,
                   entries, lossy, loc, reply, resolving, front, refused,
                   published, hist>>

(***************************************************************************)
(* The discovery loops of startMDNSDiscovery, with no subscriber attached. *)
(***************************************************************************)
Init ==
    /\ InitServer
    /\ resolving = NoResolution
    /\ stream = NoStream
    /\ front = NoFront
    /\ lossy = TRUE
    /\ pc = [p \in Procs |->
                CASE p = "listener" -> "listen"
                  [] p = "scheduler" -> "tickwait"
                  [] OTHER -> "off"]

Next ==
    \/ ListenerStart
    \/ \E d \in Datagrams : ListenerRead(d)
    \/ ListenerNextAnswer
    \/ SrvResolve
    \/ CheckSeen("listener", "answers")
    \/ SetSeen("listener", "answers")
    \/ SchedulerTick
    \/ DiscoverService
    \/ NextPTR
    \/ \E p \in {"listener", "scheduler"} : QueryServiceDetails(p)
    \/ \E p \in {"listener", "scheduler"} : NextSRV(p)
    \/ \E p \in {"listener", "scheduler"} : QueryHostIP(p)
    \/ \E p \in {"listener", "scheduler"} : GiveUp(p)
    \/ \E p \in {"listener", "scheduler"} : Admit(p)
    \/ \E p \in {"listener", "scheduler"} : BroadcastRLock(p)
    \/ \E p \in {"listener", "scheduler"} : BroadcastRUnlock(p)
    \/ SetInterface(Post("lo0"))

Spec == Init /\ [][Next]_vars

(***************************************************************************)
(* The hub taken alone: two loops that call broadcast with responses they  *)
(* have built, and the Discover handlers.                                  *)
(***************************************************************************)
HubLoops == {"listener", "scheduler"}

BoxService == ServiceOfQuery(BoxHost, BoxInst, SshType, 22, IPString(Addr5))
WebService == ServiceOfQuery(BoxHost, WebInst, HttpType, 80, IPString(Addr5))
HubResponses == {DiscoveryResponse(BoxService), DiscoveryResponse(WebService)}

\* A loop arrives at a call of server.broadcast with a response.
CallBroadcast(p) ==
    /\ ~panicked
    /\ pc[p] = "idle"
    /\ BagCardinality(published) < MaxBroadcasts
    /\ \E r \in HubResponses :
          loc' = [loc EXCEPT
                     ![p].ev = r,
                     ![p].key = MakeKey(r.service.ip, r.service.type,
                                        r.service.port),
                     ![p].adm = session,
                     ![p].ret = "idle"]
    /\ pc' = [pc EXCEPT ![p] = "broadcast"]
    /\ UNCHANGED <<hubVars, discVars, refused, published, hist>>

InitHub ==
    /\ InitServer
    /\ resolving = NoResolution
    /\ stream = NoStream
    /\ front = NoFront
    /\ lossy = TRUE
    /\ pc = [p \in Procs |->
                IF p \in HubLoops THEN "idle" ELSE "off"]

NextHub ==
    \/ \E p \in HubLoops : CallBroadcast(p)
    \/ \E p \in HubLoops : BroadcastRLock(p)
    \/ \E p \in HubLoops : BroadcastVisit(p)
    \/ \E p \in HubLoops : BroadcastRUnlock(p)
    \/ \E c \in Chans : Connect(c)
    \/ \E c \in Chans : Deliver(c)
    \/ \E c \in Chans : CloseChan(c)
    \/ \E c \in Chans : Unregister(c)

SpecHub == InitHub /\ [][NextHub]_vars

(***************************************************************************)
(* The order of the streams: the two loops broadcast, each call with a     *)
(* response of its own, and the history of the streams is kept.            *)
(***************************************************************************)
\* A loop arrives at a call of server.broadcast with the response for a
\* service it has not broadcast before: the service of its n-th call is on
\* the port whose first digit names the loop and whose last is n.
CallNumbered(p) ==
    /\ ~panicked
    /\ pc[p] = "idle"
    /\ BagCardinality(published) < MaxBroadcasts
    /\ LET loop == IF p = "listener" THEN 1 ELSE 2
           calls == Cardinality({e \in BagToSet(published) :
                                    e.ev.service.port \div 100 = loop})
           r == DiscoveryResponse(
                    ServiceOfQuery(BoxHost, BoxInst, SshType,
                                   100 * loop + calls + 1,
                                   IPString(Addr5))) IN
       loc' = [loc EXCEPT
                  ![p].ev = r,
                  ![p].key = MakeKey(r.service.ip, r.service.type,
                                     r.service.port),
                  ![p].adm = session,
                  ![p].ret = "idle"]
    /\ pc' = [pc EXCEPT ![p] = "broadcast"]
    /\ UNCHANGED <<hubVars, discVars, refused, published, hist>>

InitOrder ==
    /\ InitServer
    /\ resolving = NoResolution
    /\ stream = [NoStream EXCEPT !.on = TRUE]
    /\ front = NoFront
    /\ lossy = TRUE
    /\ pc = [p \in Procs |->
                IF p \in HubLoops THEN "idle" ELSE "off"]

NextOrder ==
    \/ \E p \in HubLoops : CallNumbered(p)
    \/ \E p \in HubLoops : BroadcastRLock(p)
    \/ \E p \in HubLoops : BroadcastVisit(p)
    \/ \E p \in HubLoops : BroadcastRUnlock(p)
    \/ Connect(1)
    \/ Deliver(1)
    \/ CloseChan(1)
    \/ Unregister(1)

SpecOrder == InitOrder /\ [][NextOrder]_vars

(***************************************************************************)
(* The frontend: App.svelte, fed with stream messages.                     *)
(***************************************************************************)
\* event.data of the messages the page is given: text that is no JSON, an
\* object without "service", and objects with a service, removed or not.
\* Two of the services differ in name and host only.
FrontMessages ==
    {[kind |-> "text"], [kind |-> "data", has |-> FALSE]}
    \cup {[kind |-> "data", has |-> TRUE, service |-> sv, removed |-> rm] :
             sv \in {BoxService, WebService,
                     ServiceOfQuery(NasHost, NasInst, SshType, 22,
                                    IPString(Addr5))},
             rm \in BOOLEAN}

\* `${service.ip}:${service.port}:${service.type}`, port as its text.
FrontId(ip, port, type) ==
    Cat(Cat(Cat(Cat(ip, <<":">>), port), <<":">>), type)

\* A search that finds nothing.
FindIndexNone(rows, id) == -1

\* services.findIndex(s => `${s.ip}:${s.port}:${s.type}` === id): the index
\* from 0 of the first row with the id, or -1.
FindIndex(rows, id) ==
    LET hits == {i \in 1..Len(rows) :
                    FrontId(rows[i].ip, rows[i].port, rows[i].type) = id} IN
    IF hits = {} THEN -1
    ELSE (CHOOSE i \in hits : \A j \in hits : i <= j) - 1

\* connectToMDNS, called by onMount and by reconnect: the EventSource in
\* use is closed and a new one is made; services stays.
ConnectToMDNS ==
    /\ front' = [front EXCEPT !.loading = TRUE, !.connected = FALSE,
                              !.source = "connecting"]
    /\ UNCHANGED <<hubVars, seen, currentIface, nticks, nread, entries, lossy,
                   session, reply, listed, resolving, pc, loc, refused,
                   published, hist>>

\* eventSource.onopen
OnOpen ==
    /\ front.source = "connecting"
    /\ front' = [front EXCEPT !.loading = FALSE, !.connected = TRUE,
                              !.source = "open"]
    /\ UNCHANGED <<hubVars, seen, currentIface, nticks, nread, entries, lossy,
                   session, reply, listed, resolving, pc, loc, refused,
                   published, hist>>

\* eventSource.onmessage: JSON.parse in a try, the test of data.service and
\* data.removed, the search for the id, and the append.
OnMessage(m) ==
    /\ front.source = "open"
    /\ front.received < MaxMessages
    /\ front' =
          [front EXCEPT
             !.received = @ + 1,
             !.last = m,
             !.services =
                IF m.kind = "data" /\ m.has /\ ~m.removed
                THEN LET service == m.service
                         id == FrontId(service.ip, FormatInt(service.port),
                                       service.type)
                         existingIndex == FindIndex(@, id) IN
                     IF existingIndex = -1
                     THEN Append(@, [id |-> id, name |-> service.name,
                                     type |-> service.type,
                                     host |-> service.host,
                                     ip |-> service.ip,
                                     port |-> FormatInt(service.port)])
                     ELSE @
                ELSE @]
    /\ UNCHANGED <<hubVars, seen, currentIface, nticks, nread, entries, lossy,
                   session, reply, listed, resolving, pc, loc, refused,
                   published, hist>>

\* eventSource.onerror: the connection is lost; the browser retries, or the
\* EventSource is closed for good and the page shows the Retry button.
OnError ==
    /\ front.source \in {"connecting", "open"}
    /\ \E next \in {"connecting", "closed"} :
          front' = [front EXCEPT !.loading = FALSE, !.connected = FALSE,
                                 !.source = next]
    /\ UNCHANGED <<hubVars, seen, currentIface, nticks, nread, entries, lossy,
                   session, reply, listed, resolving, pc, loc, refused,
                   published, hist>>

InitFront ==
    /\ InitServer
    /\ resolving = NoResolution
    /\ stream = NoStream
    /\ front = NoFront
    /\ lossy = FALSE
    /\ pc = [p \in Procs |-> "off"]

NextFront ==
    \/ ConnectToMDNS
    \/ OnOpen
    \/ \E m \in FrontMessages : OnMessage(m)
    \/ OnError

SpecFront == InitFront /\ [][NextFront]_vars

(***************************************************************************)
(* The periodic browser taken alone.                                       *)
(***************************************************************************)
InitBrowse ==
    /\ InitServer
    /\ resolving = NoResolution
    /\ stream = NoStream
    /\ front = NoFront
    /\ lossy = TRUE
    /\ pc = [p \in Procs |->
                IF p = "browser" THEN "tickwait" ELSE "off"]

NextBrowse ==
    \/ \E c \in Consumers : BrowserTick(c)
    \/ \E c \in Consumers : BrowserLookup(c)
    \/ \E c \in Consumers : ConsumerNext(c)
    \/ \E c \in Consumers : GiveUp(c)
    \/ \E c \in Consumers : CheckSeen(c, "entries")
    \/ \E c \in Consumers : SetSeen(c, "entries")
    \/ \E c \in Consumers : BroadcastRLock(c)
    \/ \E c \in Consumers : BroadcastRUnlock(c)
    \/ SetInterface(Post("lo0"))

SpecBrowse == InitBrowse /\ [][NextBrowse]_vars

\* The browser with no request served beside it, under the scheduling of
\* the Go runtime: mdns.Lookup returns,
\* and a consumer that can take a step again and again, be it only when
\* server.mu is free, takes one.
NextBrowseOnly ==
    \/ \E c \in Consumers : BrowserTick(c)
    \/ \E c \in Consumers : BrowserLookup(c)
    \/ \E c \in Consumers : ConsumerNext(c)
    \/ \E c \in Consumers : GiveUp(c)
    \/ \E c \in Consumers : CheckSeen(c, "entries")
    \/ \E c \in Consumers : SetSeen(c, "entries")
    \/ \E c \in Consumers : BroadcastRLock(c)
    \/ \E c \in Consumers : BroadcastRUnlock(c)

SpecBrowseFair ==
    /\ InitBrowse
    /\ [][NextBrowseOnly]_vars
    /\ \A c \in Consumers :
          /\ WF_vars(BrowserLookup(c))
          /\ SF_vars(\/ ConsumerNext(c)
                     \/ GiveUp(c)
                     \/ CheckSeen(c, "entries")
                     \/ SetSeen(c, "entries")
                     \/ BroadcastRLock(c)
                     \/ BroadcastRUnlock(c))

(***************************************************************************)
(* The listener end to end: the datagram carrying the pointer answer       *)
(* _ssh._tcp.local. -> box._ssh._tcp.local. is read, the location and the  *)
(* address exchanges of the chain are answered from the zone, and          *)
(* subscribers come and go.                                                *)
(***************************************************************************)
PointerDatagram == Msg(<<PTR(SshType, BoxInst)>>)

InitE2E ==
    /\ InitServer
    /\ resolving = NoResolution
    /\ stream = NoStream
    /\ front = NoFront
    /\ lossy = FALSE
    /\ pc = [p \in Procs |->
                IF p = "listener" THEN "listen" ELSE "off"]

NextE2E ==
    \/ ListenerStart
    \/ ListenerRead(PointerDatagram)
    \/ ListenerNextAnswer
    \/ QueryServiceDetails("listener")
    \/ NextSRV("listener")
    \/ QueryHostIP("listener")
    \/ Admit("listener")
    \/ BroadcastRLock("listener")
    \/ BroadcastVisit("listener")
    \/ BroadcastRUnlock("listener")
    \/ \E c \in Chans : Connect(c)
    \/ \E c \in Chans : ConnectNoFlusher(c)
    \/ \E c \in Chans : Deliver(c)
    \/ \E c \in Chans : CloseChan(c)
    \/ \E c \in Chans : Unregister(c)
    \/ SetInterface(Post("lo0"))

SpecE2E == InitE2E /\ [][NextE2E]_vars

(***************************************************************************)
(* The control requests: every request to /api/interfaces/set and the      *)
(* request for a restart, served while the listener works on pointer       *)
(* answers and one subscriber comes and goes.                              *)
(***************************************************************************)
NextCtl ==
    \/ ListenerStart
    \/ ListenerRead(PointerDatagram)
    \/ ListenerNextAnswer
    \/ QueryServiceDetails("listener")
    \/ NextSRV("listener")
    \/ QueryHostIP("listener")
    \/ Admit("listener")
    \/ BroadcastRLock("listener")
    \/ BroadcastVisit("listener")
    \/ BroadcastRUnlock("listener")
    \/ Connect(1)
    \/ Deliver(1)
    \/ CloseChan(1)
    \/ Unregister(1)
    \/ \E req \in SetRequests : SetInterface(req)
    \/ ServeUnrouted(RestartRequest)

SpecCtl == InitE2E /\ [][NextCtl]_vars

(***************************************************************************)
(* The multicast listener taken alone: every kind of datagram, exchanges   *)
(* and lookups that can fail, and the interface switch.                    *)
(***************************************************************************)
InitListen ==
    /\ InitServer
    /\ resolving = NoResolution
    /\ stream = NoStream
    /\ front = NoFront
    /\ lossy = TRUE
    /\ pc = [p \in Procs |->
                IF p = "listener" THEN "listen" ELSE "off"]

NextListen ==
    \/ ListenerStart
    \/ \E d \in Datagrams : ListenerRead(d)
    \/ ListenerNextAnswer
    \/ SrvResolve
    \/ CheckSeen("listener", "answers")
    \/ SetSeen("listener", "answers")
    \/ QueryServiceDetails("listener")
    \/ NextSRV("listener")
    \/ QueryHostIP("listener")
    \/ GiveUp("listener")
    \/ Admit("listener")
    \/ BroadcastRLock("listener")
    \/ BroadcastRUnlock("listener")
    \/ SetInterface(Post("lo0"))

SpecListen == InitListen /\ [][NextListen]_vars

(***************************************************************************)
(* The scheduler taken alone: its ticks, exchanges that can fail, and the  *)
(* interface switch.                                                       *)
(***************************************************************************)
InitSched ==
    /\ InitServer
    /\ resolving = NoResolution
    /\ stream = NoStream
    /\ front = NoFront
    /\ lossy = TRUE
    /\ pc = [p \in Procs |->
                IF p = "scheduler" THEN "tickwait" ELSE "off"]

NextSched ==
    \/ SchedulerTick
    \/ DiscoverService
    \/ NextPTR
    \/ QueryServiceDetails("scheduler")
    \/ NextSRV("scheduler")
    \/ QueryHostIP("scheduler")
    \/ GiveUp("scheduler")
    \/ Admit("scheduler")
    \/ BroadcastRLock("scheduler")
    \/ BroadcastRUnlock("scheduler")
    \/ SetInterface(Post("lo0"))

SpecSched == InitSched /\ [][NextSched]_vars

(***************************************************************************)
(* A session and its end: the listener as above, with one subscriber that  *)
(* comes and goes.                                                         *)
(***************************************************************************)
NextSession ==
    \/ ListenerStart
    \/ \E d \in Datagrams : ListenerRead(d)
    \/ ListenerNextAnswer
    \/ SrvResolve
    \/ CheckSeen("listener", "answers")
    \/ SetSeen("listener", "answers")
    \/ QueryServiceDetails("listener")
    \/ NextSRV("listener")
    \/ QueryHostIP("listener")
    \/ GiveUp("listener")
    \/ Admit("listener")
    \/ BroadcastRLock("listener")
    \/ BroadcastVisit("listener")
    \/ BroadcastRUnlock("listener")
    \/ Connect(1)
    \/ Deliver(1)
    \/ CloseChan(1)
    \/ Unregister(1)
    \/ SetInterface(Post("lo0"))

SpecSession == InitListen /\ [][NextSession]_vars

(***************************************************************************)
(* A late subscriber: the listener works on pointer answers, one           *)
(* subscriber comes and goes, the interface is switched, and the history   *)
(* of the stream is kept.                                                  *)
(***************************************************************************)
InitLate ==
    /\ InitServer
    /\ resolving = NoResolution
    /\ stream = [NoStream EXCEPT !.on = TRUE]
    /\ front = NoFront
    /\ lossy = FALSE
    /\ pc = [p \in Procs |->
                IF p = "listener" THEN "listen" ELSE "off"]

NextLate ==
    \/ ListenerStart
    \/ ListenerRead(PointerDatagram)
    \/ ListenerNextAnswer
    \/ QueryServiceDetails("listener")
    \/ NextSRV("listener")
    \/ QueryHostIP("listener")
    \/ Admit("listener")
    \/ BroadcastRLock("listener")
    \/ BroadcastVisit("listener")
    \/ BroadcastRUnlock("listener")
    \/ Connect(1)
    \/ Deliver(1)
    \/ CloseChan(1)
    \/ Unregister(1)
    \/ SetInterface(Post("lo0"))

SpecLate == InitLate /\ [][NextLate]_vars

(***************************************************************************)
(* The interface name between its writer and its reader: the set handler   *)
(* step by step and the /api/interfaces handler, while the listener works  *)
(* on pointer answers and one subscriber comes and goes.                   *)
(***************************************************************************)
NextIface ==
    \/ ListenerStart
    \/ ListenerRead(PointerDatagram)
    \/ ListenerNextAnswer
    \/ QueryServiceDetails("listener")
    \/ NextSRV("listener")
    \/ QueryHostIP("listener")
    \/ Admit("listener")
    \/ BroadcastRLock("listener")
    \/ BroadcastVisit("listener")
    \/ BroadcastRUnlock("listener")
    \/ Connect(1)
    \/ Deliver(1)
    \/ CloseChan(1)
    \/ Unregister(1)
    \/ SetLock(Post("lo0"))
    \/ SetStoreName
    \/ SetStoreSeen
    \/ SetUnlock
    \/ \E req \in ListRequests : ListInterfaces(req)
    \/ ListCurrent

SpecIface == InitE2E /\ [][NextIface]_vars

(***************************************************************************)
(* resolveHostIP taken alone: a call for box.local, given what the         *)
(* multicast exchange returns and what net.LookupIP would return.          *)
(***************************************************************************)
Addr7 == [fam |-> 4, b |-> <<10, 0, 0, 7>>]

\* What the exchange for the A record can return.
ExchangeResults ==
    {Timeout,
     Reply(<<>>),
     Reply(<<TXT(BoxHost)>>),
     Reply(<<PTR(SshType, BoxInst), SRV(BoxInst, BoxHost, 22)>>),
     Reply(<<ARec(BoxHost, Addr5)>>),
     Reply(<<TXT(BoxHost), ARec(BoxHost, Addr7), ARec(BoxHost, Addr5)>>),
     Reply(<<ARec(BoxHost, Addr5), ARec(BoxHost, Addr7)>>)}

\* What net.LookupIP can return.
LookupResultsIP ==
    {LookupErr,
     [err |-> FALSE, ips |-> <<>>],
     [err |-> FALSE, ips |-> <<AddrV6>>],
     [err |-> FALSE, ips |-> <<AddrV6, AddrV6>>],
     [err |-> FALSE, ips |-> <<Addr7>>],
     [err |-> FALSE, ips |-> <<AddrV6, Addr5>>],
     [err |-> FALSE, ips |-> <<Addr7, AddrV6, Addr5>>]}

\* The call is made: the question is built and about to be sent.
InitResolve ==
    /\ InitServer
    /\ stream = NoStream
    /\ front = NoFront
    /\ lossy = TRUE
    /\ pc = [p \in Procs |-> "off"]
    /\ \E mr \in ExchangeResults, lr \in LookupResultsIP :
          resolving = [at |-> "exchange", mr |-> mr, lr |-> lr,
                       ip |-> NoString, lookups |-> 0]

\* c.Exchange and the range over in.Answer: the first A record is returned.
ResolveExchange ==
    /\ resolving.at = "exchange"
    /\ IF MulticastAnswered(resolving.mr)
       THEN resolving' =
                [resolving EXCEPT
                    !.at = "returned",
                    !.ip = IPString(FirstOfKind(resolving.mr.answer, "A").a)]
       ELSE resolving' = [resolving EXCEPT !.at = "lookup"]
    /\ UNCHANGED <<hubVars, seen, currentIface, nticks, nread, entries,
                   lossy, session, reply, listed, front, pc, loc, refused,
                   published, hist>>

\* net.LookupIP and the range over ips: the first IPv4 address, or "".
ResolveLookup ==
    /\ resolving.at = "lookup"
    /\ resolving' =
          [resolving EXCEPT
              !.at = "returned",
              !.lookups = @ + 1,
              !.ip = IF resolving.lr.err THEN NoString
                     ELSE IF HasV4(resolving.lr.ips)
                          THEN IPString(FirstV4(resolving.lr.ips))
                          ELSE NoString]
    /\ UNCHANGED <<hubVars, seen, currentIface, nticks, nread, entries,
                   lossy, session, reply, listed, front, pc, loc, refused,
                   published, hist>>

NextResolve ==
    \/ ResolveExchange
    \/ ResolveLookup

SpecResolve == InitResolve /\ [][NextResolve]_vars

(***************************************************************************)
(* The three discovery paths together: the listener reads a datagram with  *)
(* a pointer answer and a location answer (the chain of queryHostIP and    *)
(* the SRV case), one consumer of the browser works on the entries of its  *)
(* lookups, and one subscriber comes and goes.                             *)
(***************************************************************************)
MixedDatagram == Msg(<<PTR(SshType, BoxInst), SRV(BoxInst, BoxHost, 22)>>)

Publishers == {"listener", "consumer1"}

InitPaths ==
    /\ InitServer
    /\ resolving = NoResolution
    /\ stream = NoStream
    /\ front = NoFront
    /\ lossy = FALSE
    /\ pc = [p \in Procs |->
                CASE p = "listener" -> "listen"
                  [] p = "browser" -> "tickwait"
                  [] OTHER -> "off"]

NextPaths ==
    \/ ListenerStart
    \/ ListenerRead(MixedDatagram)
    \/ ListenerNextAnswer
    \/ SrvResolve
    \/ QueryServiceDetails("listener")
    \/ NextSRV("listener")
    \/ QueryHostIP("listener")
    \/ Admit("listener")
    \/ CheckSeen("listener", "answers")
    \/ SetSeen("listener", "answers")
    \/ BrowserTick("consumer1")
    \/ BrowserLookup("consumer1")
    \/ ConsumerNext("consumer1")
    \/ GiveUp("consumer1")
    \/ CheckSeen("consumer1", "entries")
    \/ SetSeen("consumer1", "entries")
    \/ \E p \in Publishers : BroadcastRLock(p)
    \/ \E p \in Publishers : BroadcastVisit(p)
    \/ \E p \in Publishers : BroadcastRUnlock(p)
    \/ Connect(1)
    \/ Deliver(1)
    \/ CloseChan(1)
    \/ Unregister(1)

SpecPaths == InitPaths /\ [][NextPaths]_vars

(***************************************************************************)
(* Properties of the hub, checked under SpecHub.                           *)
(***************************************************************************)

\* C3: a broadcast call that nothing else interferes with (no subscriber
\* attaches, detaches or receives and no other broadcast sends while it
\* runs) has, when it ends, enqueued its response on exactly the channels
\* that were registered with room when it was called.
BroadcastReachesRoom ==
    [][\A p \in Loops :
          (/\ hist[p].phase = "running"
           /\ hist[p].quiet
           /\ hist'[p].phase # "running")
          => hist[p].sent = hist[p].room]_vars

\* C4: once unregisterClient has returned for a channel, no step enqueues
\* anything on the channel, and no broadcast, running or later, has the
\* channel among those it is still to visit.
DetachedNeverGains ==
    [][\A c \in Chans :
          hpc[c] = "done" =>
              /\ chanBuf'[c] = chanBuf[c]
              /\ c \notin clients'
              /\ \A p \in Loops : c \notin loc'[p].todo]_vars

\* A broadcast is ranging over the registry after a subscriber has
\* detached, with another subscriber still to be visited.
DetachedNeverGainsWitness ==
    \E c \in Chans, p \in Loops :
        /\ hpc[c] = "done"
        /\ pc[p] = "range"
        /\ loc[p].todo # {}

\* C5: broadcast never sends on a channel that is already closed.
NoSendOnClosed == \A p \in Loops : hist[p].phase # "panicked"

\* C6: a broadcast call that is ranging over the registry can always take
\* its next step, so the call always runs to its return.
BroadcastCompletes ==
    \A p \in Loops :
        pc[p] = "range" =>
            ENABLED (BroadcastVisit(p) \/ BroadcastRUnlock(p))

(***************************************************************************)
(* Properties of admission and of the identity key.                        *)
(***************************************************************************)

\* The publications of one key admitted in one session are a single one.
OncePerKey(a, b) ==
    (a.key = b.key /\ a.session = b.session)
        => (a = b /\ CopiesIn(a, published) = 1)

\* C1: under every interleaving of the loops, of the chains that present
\* the same key in one session exactly one is admitted and publishes: no
\* key is published twice for one session.  Checked under SpecBrowse.
AdmittedOncePerKey ==
    \A a, b \in BagToSet(published) : OncePerKey(a, b)

\* C2: an admission attempt that tests a key which server.seen holds is
\* rejected: the loop goes on without setting the key or broadcasting,
\* and server.seen is left as it was.  Checked under Spec.
SeenKeyRejected ==
    [][\A p \in Loops :
          (/\ pc[p] \in {"admit", "check"}
           /\ pc'[p] # pc[p]
           /\ loc[p].key \in seen)
          => /\ pc'[p] \notin {"set", "broadcast"}
             /\ seen' = seen
             /\ published' = published
             /\ loc[p].key \in refused']_vars

\* An attempt was rejected for a key that server.seen still holds.
SeenKeyRejectedWitness == \E k \in refused : k \in seen

\* The service type the network advertises an instance under.
TypeOfInstance(inst) ==
    LET I == {i \in 1..Len(Zone) :
                 Zone[i].kind = "PTR" /\ Zone[i].ptr = inst} IN
    IF I = {} THEN NoString ELSE Zone[CHOOSE i \in I : TRUE].name

\* C9: every path admits a service under the key address:category:port
\* whose category is the service type, not the instance name.  Checked
\* under Spec.
KeysUseServiceType ==
    \A e \in BagToSet(published) :
        e.key = MakeKey(e.ev.service.ip, TypeOfInstance(e.inst),
                        e.ev.service.port)

\* C10: of the records of one session that agree on address, service type
\* and port but differ in name or host, one only is broadcast.  Checked
\* under Spec.
NameAndHostNotInIdentity ==
    \A a, b \in BagToSet(published) :
        (/\ a.session = b.session
         /\ a.ev.service.ip = b.ev.service.ip
         /\ a.ev.service.port = b.ev.service.port
         /\ TypeOfInstance(a.inst) = TypeOfInstance(b.inst))
        => (a.ev.service.name = b.ev.service.name
            /\ a.ev.service.host = b.ev.service.host)

(***************************************************************************)
(* The pointer answer end to end, checked under SpecE2E.                   *)
(***************************************************************************)

ListenerDone(n) == pc["listener"] = "recv" /\ nread = n

\* The record of the box, with the host as given.
BoxRecord(host) ==
    [service |->
        [name |-> <<"box">>,
         type |-> <<"_ssh", ".", "_tcp", ".", "local", ".">>,
         host |-> host,
         ip   |-> <<"10", ".", "0", ".", "0", ".", "5">>,
         port |-> 22],
     removed |-> FALSE]

PublishedExactly(response) ==
    /\ BagCardinality(published) = 1
    /\ \A e \in BagToSet(published) : e.ev = response

Answered(req) == reply' # reply /\ reply'.req = req

\* What a control request must leave alone when it fails.
ServerUntouched ==
    UNCHANGED <<currentIface, seen, session, clients, chanBuf, chanClosed,
                hpc, pc, loc, published>>

\* No interface that is up has the name.
NotUp(name) ==
    \A i \in 1..Len(Interfaces) :
        Interfaces[i].name = name => ~Interfaces[i].up

\* C11: a set-interface request that names an interface which is not among
\* the interfaces that are up is answered 404 and changes nothing: the
\* current interface, server.seen, the registry and the loops stay as
\* they were.  Checked under SpecCtl.
UnknownInterfaceNotFound ==
    [][\A n \in RequestedNames :
          (Answered(Post(n)) /\ NotUp(n))
          => (reply'.status = 404 /\ ServerUntouched)]_vars

\* The request for an unknown interface was answered while a key was held
\* and a subscriber was registered.
UnknownInterfaceNotFoundWitness ==
    /\ reply = [req |-> Post("nonexistent0"), status |-> 404]
    /\ seen # {}
    /\ clients # {}

\* C12: a successful switch stores the requested name and empties
\* server.seen in the same step, and an admission that tests a key which
\* server.seen does not hold admits it for the current session, whatever
\* was admitted before the switch.  Checked under SpecE2E.
SwitchResetsSeen ==
    [][/\ (currentIface' # currentIface \/ session' # session)
          => /\ reply'.status = 200
             /\ currentIface' = reply'.req.body.name
             /\ seen' = {}
             /\ session' = session + 1
       /\ \A p \in Loops :
             (/\ pc[p] = "admit"
              /\ pc'[p] # "admit"
              /\ loc[p].key \notin seen)
             => /\ pc'[p] = "broadcast"
                /\ loc'[p].adm = session
                /\ loc[p].key \in seen']_vars

\* A key broadcast before the switch has been broadcast again after it.
SwitchResetsSeenWitness ==
    \E a, b \in BagToSet(published) :
        a.key = b.key /\ a.session = 0 /\ b.session = 1

\* C15: a request for a restart is accepted, and leaves the current
\* interface name as it is.  Checked under SpecCtl.
RestartAccepted ==
    [][Answered(RestartRequest)
       => (reply'.status = 200 /\ currentIface' = currentIface)]_vars

\* A set-interface request that is no POST and no preflight, or a POST
\* whose body does not decode or carries no interface name.
MalformedSetRequest(req) ==
    \/ req.method \notin {"POST", "OPTIONS"}
    \/ /\ req.method = "POST"
       /\ \/ req.body.kind = "undecodable"
          \/ ~req.body.has
          \/ req.body.name = ""

\* C20: a malformed set-interface request is answered with a client error
\* (405 for the method, 400 for the body) and changes nothing.  Checked
\* under SpecCtl.
MalformedRequestRefused ==
    [][\A req \in SetRequests :
          (Answered(req) /\ MalformedSetRequest(req))
          => /\ reply'.status = (IF req.method # "POST" THEN 405 ELSE 400)
             /\ ServerUntouched]_vars

\* A POST with an empty interface name was answered 400 while a key was
\* held and a subscriber was registered.
MalformedRequestRefusedWitness ==
    /\ reply = [req |-> Post(""), status |-> 400]
    /\ seen # {}
    /\ clients # {}

(***************************************************************************)
(* Properties of the sessions and of the loops.                            *)
(***************************************************************************)

\* C13: a chain that admits or broadcasts does so in the session in which
\* it started: none that began before a switch records a key or reaches
\* the hub after it.  Checked under SpecE2E.
NoStaleChain ==
    \A p \in Loops :
        pc[p] \in {"broadcast", "range"} =>
            (loc[p].born = loc[p].adm /\ loc[p].born = session)

\* C14: once a switch has superseded the session, the listener and the
\* scheduler of that session, at their iteration boundary, do not begin
\* another iteration.  Checked under Spec.
SupersededLoopsStop ==
    session > 0 =>
        /\ ~ENABLED (\E d \in Datagrams : ListenerRead(d))
        /\ ~ENABLED SchedulerTick

\* C16: when the listener could not join the multicast group, the other
\* loops of the session do not run: no tick is taken and nothing is
\* broadcast from then on.  Checked under Spec.
BindFailureStopsSession ==
    [][pc["listener"] = "exited"
       => (nticks' = nticks /\ published' = published)]_vars

\* C17: every admitted key and every broadcast record carries a non-empty
\* address, and a resolution that finds no address leaves server.seen and
\* the broadcasts as they were.  Checked under SpecListen.
AddressNeverEmpty ==
    /\ \A e \in BagToSet(published) :
          e.ev.service.ip # <<>> /\ Head(e.key) # ":"
    /\ \A k \in seen : Head(k) # ":"
    /\ \A p \in Loops :
          /\ pc[p] \in {"admit", "check", "set", "broadcast", "range"}
                 => loc[p].ev.service.ip # <<>>
          /\ pc[p] = "noaddr" => loc[p].key = NoString

\* A loop holds a candidate whose address nothing resolved, with nothing
\* admitted so far.
AddressNeverEmptyWitness ==
    \E p \in Loops :
        /\ pc[p] = "noaddr"
        /\ seen = {}
        /\ published = EmptyBag

\* C18: reading a datagram that does not unpack changes nothing but the
\* count of reads, and the listener, once it reads, never exits: it is
\* back at its receive and can read the next datagram.  Checked under
\* SpecListen.
MalformedDatagramSkipped ==
    [][/\ ListenerRead(Malformed)
          => /\ pc'["listener"] = "recv"
             /\ UNCHANGED <<seen, published, refused, clients, chanBuf,
                            currentIface, session>>
       /\ pc["listener"] \notin {"listen", "exited"}
          => pc'["listener"] # "exited"]_vars

\* The listener has skipped a malformed datagram and is at its receive.
MalformedDatagramSkippedWitness ==
    /\ loc["listener"].err = "malformed"
    /\ pc["listener"] = "recv"
    /\ nread >= 1

\* C19: what a chain broadcasts was admitted under the key built from the
\* record's own address, type and port.  Checked under SpecBrowse.
BroadcastUnderOwnKey ==
    \A e \in BagToSet(published) :
        e.key = MakeKey(e.ev.service.ip, e.ev.service.type,
                        e.ev.service.port)

(***************************************************************************)
(* Properties of the interface name and of its listing.                    *)
(***************************************************************************)

\* C21: no read of server.currentIface runs while a write of it does: the
\* /api/interfaces handler is never at its read of the name while the set
\* handler is at its store of it.  Checked under SpecIface.
NameAccessExclusive ==
    ~(pc["listhandler"] = "current" /\ pc["sethandler"] = "name")

\* The interfaces of the host that are up, in the order of net.Interfaces.
UpInterfaces ==
    << [name |-> "lo0", mtu |-> <<"16384">>],
       [name |-> "en5", mtu |-> <<"1500">>] >>

\* C25: a request to /api/interfaces changes nothing but its own response:
\* the current interface, server.seen, the registry, the channels and the
\* other goroutines are left as they are; and the interfaces it answers
\* with are those that are up, all of them and no other, whatever the
\* session and server.seen are.  Checked under SpecIface.
ListingIsPureRead ==
    [][listed' # listed
       => /\ UNCHANGED <<currentIface, seen, session, clients, rlock,
                         chanBuf, chanClosed, hpc, loc, published, refused,
                         reply>>
          /\ \A p \in Procs \ {"listhandler"} : pc'[p] = pc[p]
          /\ \A i \in 1..Len(listed'.interfaces) :
                \E j \in 1..Len(Interfaces) :
                    /\ Interfaces[j].name = listed'.interfaces[i].name
                    /\ Interfaces[j].up
          /\ pc'["listhandler"] = "current"
                => listed'.interfaces = UpInterfaces
          /\ listed'.status = 200 /\ listed'.current # ""
                => listed'.interfaces = UpInterfaces]_vars

\* A listing was answered after a switch, while a key was held and a
\* subscriber was registered.
ListingIsPureReadWitness ==
    /\ listed = [status |-> 200, interfaces |-> UpInterfaces,
                 current |-> "lo0"]
    /\ session = 1
    /\ seen # {}
    /\ clients # {}

(***************************************************************************)
(* Properties of the resolution chain and of resolveHostIP.                *)
(***************************************************************************)

\* C26: in a chain started by a pointer answer the stages follow one
\* another: address resolution starts only from the answer of the location
\* query, with the target and port of one of its SRV records; the
\* admission is reached only from a resolution that gave an address, for
\* that target and port; broadcast is reached only from the admission
\* that recorded the key, with the same event.  Checked under SpecListen.
ChainInSequence ==
    [][\A p \in {"listener", "scheduler"} :
          /\ (pc[p] = "details" /\ pc'[p] # "details")
                => /\ pc'[p] \in {"srvs", AfterDetails(p)}
                   /\ pc'[p] = "srvs"
                         => loc'[p].srvs =
                                Matching(Zone, loc[p].serviceName, "SRV")
          /\ (pc'[p] = "hostip" /\ pc[p] # "hostip")
                => /\ pc[p] = "srvs"
                   /\ loc[p].srvs # <<>>
                   /\ Head(loc[p].srvs).kind = "SRV"
                   /\ loc'[p].host = Head(loc[p].srvs).target
                   /\ loc'[p].port = Head(loc[p].srvs).port
          /\ (pc'[p] = "admit" /\ pc[p] # "admit")
                => /\ pc[p] = "hostip"
                   /\ loc'[p].ev.service.ip # NoString
                   /\ loc'[p].ev.service.host = TrimSuffixDot(loc[p].host)
                   /\ loc'[p].ev.service.port = loc[p].port
                   /\ loc'[p].inst = loc[p].serviceName
          /\ (/\ pc'[p] = "broadcast"
              /\ pc[p] # "broadcast"
              /\ loc[p].serviceName # NoString)
                => /\ pc[p] = "admit"
                   /\ loc[p].key \in seen'
                   /\ loc'[p].ev = loc[p].ev
          /\ (/\ pc'[p] = "range"
              /\ pc[p] # "range"
              /\ loc[p].serviceName # NoString)
                => /\ pc[p] = "broadcast"
                   /\ \E e \in BagToSet(published') :
                         /\ e.ev = loc[p].ev
                         /\ e.ev.service.ip # NoString
                         /\ CopiesIn(e, published') =
                                CopiesIn(e, published) + 1]_vars

\* A chain has been through the location query, the address resolution
\* and the admission, and is in its broadcast.
ChainInSequenceWitness ==
    \E p \in {"listener", "scheduler"} :
        /\ pc[p] = "range"
        /\ loc[p].serviceName # NoString
        /\ loc[p].inst = loc[p].serviceName
        /\ loc[p].key \in seen

\* The i-th element is the first of the sequence that satisfies the test.
IsFirst(i, n, Test(_)) ==
    /\ i \in 1..n
    /\ Test(i)
    /\ \A j \in 1..(i - 1) : ~Test(j)

\* C27: a call of resolveHostIP that has returned gave the address of the
\* first A record of the multicast answer if there is one, without calling
\* net.LookupIP; it called net.LookupIP once if the exchange failed or
\* its answer held no A record, and gave the first IPv4 address of the
\* lookup; it gave "" only when neither gave an address.  It agrees with
\* ResolveHostIP, which the loops use.  Checked under SpecResolve.
ResolveTiers ==
    resolving.at = "returned" =>
        LET mr == resolving.mr
            lr == resolving.lr
            IsA(i) == mr.answer[i].kind = "A"
            IsV4(i) == lr.ips[i].fam = 4
            answered == ~mr.err /\ \E i \in 1..Len(mr.answer) : IsA(i)
            looked == ~lr.err /\ \E i \in 1..Len(lr.ips) : IsV4(i)
        IN  /\ answered
                => /\ resolving.lookups = 0
                   /\ \E i \in 1..Len(mr.answer) :
                         /\ IsFirst(i, Len(mr.answer), IsA)
                         /\ resolving.ip = IPString(mr.answer[i].a)
            /\ ~answered => resolving.lookups = 1
            /\ (~answered /\ looked)
                => \E i \in 1..Len(lr.ips) :
                      /\ IsFirst(i, Len(lr.ips), IsV4)
                      /\ resolving.ip = IPString(lr.ips[i])
            /\ resolving.ip = NoString <=> (~answered /\ ~looked)
            /\ resolving.ip = ResolveHostIP(mr, lr)

\* The exchange was answered, without an A record; the lookup was called
\* and gave an address, after an IPv6 address that was passed over.
ResolveTiersWitness ==
    /\ resolving.at = "returned"
    /\ ~resolving.mr.err
    /\ resolving.mr.answer # <<>>
    /\ resolving.lookups = 1
    /\ resolving.lr.ips # <<>>
    /\ resolving.lr.ips[1].fam = 6
    /\ resolving.ip = <<"10", ".", "0", ".", "0", ".", "5">>

\* What a query of the scheduler leaves alone when it brings nothing.
NothingDiscovered ==
    UNCHANGED <<seen, published, refused, clients, chanBuf, currentIface,
                session>>

\* C28: a query of the scheduler that fails, or whose answer is empty,
\* changes nothing and the range goes on with the next type of the
\* catalog; the types are queried one after the other from the first to
\* the last, and every tick starts again from the first.  Checked under
\* SpecSched.
QueryFailureSkipped ==
    [][LET i == loc["scheduler"].idx
           n == Len(ServiceTypes)
       IN  /\ (DiscoverService /\ i \in 1..n)
                => /\ NothingDiscovered
                   /\ \/ /\ pc'["scheduler"] = "discover"
                         /\ loc'["scheduler"].idx = i + 1
                         /\ loc'["scheduler"].err = "timeout"
                      \/ /\ pc'["scheduler"] = "ptrs"
                         /\ loc'["scheduler"].idx = i
                         /\ loc'["scheduler"].serviceType = ServiceTypes[i]
                         /\ loc'["scheduler"].ptrs =
                                Matching(Zone, ServiceTypes[i], "PTR")
           /\ (NextPTR /\ loc["scheduler"].ptrs = <<>>)
                => /\ NothingDiscovered
                   /\ pc'["scheduler"] = "discover"
                   /\ loc'["scheduler"].idx = i + 1
           /\ (DiscoverService /\ i = n + 1)
                => /\ pc'["scheduler"] = "tickwait"
                   /\ loc'["scheduler"].idx = 0
           /\ SchedulerTick => loc'["scheduler"].idx = 1
           /\ loc'["scheduler"].idx # i
                => \/ loc'["scheduler"].idx = i + 1
                   \/ SchedulerTick
                   \/ i = n + 1]_vars

\* In its second tick the scheduler is about to query the last type of the
\* catalog, after the query before has failed, with nothing admitted.
QueryFailureSkippedWitness ==
    /\ nticks["scheduler"] = 2
    /\ pc["scheduler"] = "discover"
    /\ loc["scheduler"].idx = Len(ServiceTypes)
    /\ loc["scheduler"].err = "timeout"
    /\ seen = {}
    /\ published = EmptyBag

(***************************************************************************)
(* Properties of server.seen and of the mutex.                             *)
(***************************************************************************)

\* C29: a step either keeps every key server.seen holds, within the same
\* session, or is the successful set-interface request, which starts a
\* session with server.seen empty.  Checked under SpecSession.
SeenOnlyGrows ==
    [][\/ /\ seen \subseteq seen'
          /\ session' = session
       \/ /\ reply' = [req |-> Post("lo0"), status |-> 200]
          /\ session' = session + 1
          /\ seen' = {}]_vars

\* After a switch that removed the keys of the session before,
\* server.seen has grown to two keys, and a subscriber is registered.
SeenOnlyGrowsWitness ==
    /\ session = 1
    /\ Cardinality(seen) = 2
    /\ \E e \in BagToSet(published) : e.session = 0
    /\ clients # {}

\* The step with which a loop takes the mutex, and the steps with which
\* those that hold it go on inside their critical section.
TakesMutex(p) ==
    \/ Admit(p)
    \/ CheckSeen(p, "answers")
    \/ SetSeen(p, "answers")
    \/ BroadcastRLock(p)
HolderStep ==
    \/ \E q \in rlock : BroadcastVisit(q) \/ BroadcastRUnlock(q)
    \/ SetStoreName
    \/ SetStoreSeen
    \/ SetUnlock

\* C30: whoever holds the mutex is inside broadcast or inside the
\* critical section of the switch, never at an exchange, a receive or a
\* blocking send; and a loop that is at a request for the mutex can take
\* it, or a holder can take its next step towards releasing it.  Checked
\* under SpecPaths.
MutexAlwaysObtained ==
    /\ \A q \in rlock : pc[q] = "range"
    /\ \A p \in Loops :
          pc[p] \in {"admit", "check", "set", "broadcast"}
          => (ENABLED TakesMutex(p) \/ ENABLED HolderStep)

(***************************************************************************)
(* Properties of the subscribers and of their queues.                      *)
(***************************************************************************)

\* The Discover handlers that have registered and not yet returned.
Running == {c \in Chans : hpc[c] \in {"streaming", "noflusher", "closed"}}

\* C22: a Discover handler that is returning, on either exit path, gets
\* to its unregisterClient: whenever its channel is closed and still
\* registered, either unregisterClient can run or a broadcast that holds
\* the mutex can take its next step towards releasing it.  Checked under
\* SpecE2E.
DetachFollowsClose ==
    \A c \in Chans :
        (hpc[c] = "closed" /\ c \in clients)
        => \/ ENABLED Unregister(c)
           \/ \E p \in rlock :
                 ENABLED (BroadcastVisit(p) \/ BroadcastRUnlock(p))

\* C23: the queue of a subscriber never holds more than its capacity,
\* however many loops broadcast at once.  Checked under SpecPaths.
QueueWithinCapacity == \A c \in Chans : Len(chanBuf[c]) <= ChanCap

\* Two broadcasts are ranging over the registry at once, and one of them
\* has passed over a registered channel that is full without sending.
QueueWithinCapacityWitness ==
    /\ \A q \in Publishers : pc[q] = "range"
    /\ \E p \in Publishers, c \in clients :
          /\ c \notin loc[p].todo
          /\ c \notin hist[p].sent
          /\ Len(chanBuf[c]) = ChanCap

\* The type the browser gives the services of its category.
BrowsedType == Cat(Cat(<<"_">>, BrowseType), <<".", "local", ".">>)

\* C24: every event that is broadcast, by whichever path, has removed =
\* FALSE, and so has every event a subscriber's queue holds.  Checked
\* under SpecPaths.
NeverRemoved ==
    /\ \A e \in BagToSet(published) : e.ev.removed = FALSE
    /\ \A c \in Chans : \A i \in 1..Len(chanBuf[c]) :
          chanBuf[c][i].removed = FALSE
    /\ \A p \in Loops :
          pc[p] \in {"broadcast", "range"} => loc[p].ev.removed = FALSE

\* The chain of queryHostIP, the SRV case of the listener and the browser
\* have each broadcast an event, and the subscriber's queue holds one.
NeverRemovedWitness ==
    /\ \E e \in BagToSet(published) : e.ev.service.type = SshType
    /\ \E e \in BagToSet(published) : e.ev.service.type = BoxInst
    /\ \E e \in BagToSet(published) : e.ev.service.type = BrowsedType
    /\ \E c \in Chans : chanBuf[c] # <<>>

\* C31: an answer the listener takes from a datagram that is neither a
\* pointer nor a location record changes nothing but the listener's place in
\* the answers: no key is admitted, nothing is broadcast or queued, and the
\* listener starts no query; the listener starts a location lookup only for
\* a pointer answer and an address resolution of its own only for a
\* location answer.  Checked under SpecListen.
OtherAnswersIgnored ==
    [][(pc["listener"] = "answers" /\ loc["listener"].answers # <<>>
        /\ loc'["listener"] # loc["listener"]) =>
          LET record == Head(loc["listener"].answers) IN
          /\ record.kind \notin {"PTR", "SRV"} =>
                /\ pc' = pc
                /\ loc' = [loc EXCEPT !["listener"].answers = Tail(@)]
                /\ UNCHANGED <<seen, refused, published, chanBuf, hist>>
          /\ pc'["listener"] = "details" => record.kind = "PTR"
          /\ pc'["listener"] = "srvresolve" => record.kind = "SRV"]_vars

\* The text record of a datagram has been passed over and its address
\* record is the answer to take next.
OtherAnswersIgnoredWitness ==
    /\ pc["listener"] = "answers"
    /\ Len(loc["listener"].answers) = 1
    /\ Head(loc["listener"].answers).kind = "A"
    /\ nread = 1

\* The loop and the call a response of SpecOrder is of.
LoopOf(response) == response.service.port \div 100
NumberOf(response) == response.service.port % 100

\* C32: what a subscriber has received, followed by what its queue holds,
\* has each broadcast call's response at most once, has only responses of
\* calls that were made while the subscriber was registered, and has the
\* responses of one loop in the order of that loop's calls.  Checked under
\* SpecOrder, where every call broadcasts a response of its own.
StreamIsSubsequence ==
    \A c \in Chans :
       LET g == stream.got[c] \o chanBuf[c] IN
       /\ \A i \in 1..Len(g) :
             /\ g[i] \in stream.during[c]
             /\ \E e \in BagToSet(published) : e.ev = g[i]
       /\ \A i, j \in 1..Len(g) :
             i < j =>
                /\ g[i] # g[j]
                /\ LoopOf(g[i]) = LoopOf(g[j])
                      => NumberOf(g[i]) < NumberOf(g[j])

\* A subscriber has received three responses, of both loops, so two of one
\* loop among them.
StreamIsSubsequenceWitness ==
    /\ Len(stream.got[1]) = 3
    /\ \E i, j \in 1..3 : LoopOf(stream.got[1][i]) # LoopOf(stream.got[1][j])

\* The key a response is admitted under.
KeyOf(response) ==
    MakeKey(response.service.ip, response.service.type,
            response.service.port)

\* C33 as stated: as long as server.seen has not been reset since a
\* subscriber attached, the subscriber receives no service whose key was in
\* server.seen when it attached.  Checked under SpecLate.
AdmittedBeforeNeverDelivered ==
    \A c \in Chans :
       session = stream.at[c] =>
          \A i \in 1..Len(stream.got[c]) :
             KeyOf(stream.got[c][i]) \notin stream.before[c]

\* C33, amended: a subscriber receives only responses of broadcast calls
\* that took the read lock while it was registered; the response of a call
\* that began before it attached never reaches it.  Checked under SpecLate.
OnlyLaterBroadcastsDelivered ==
    \A c \in Chans :
       \A i \in 1..Len(stream.got[c]) :
          stream.got[c][i] \in stream.during[c]

\* A subscriber that attached between the admission of a key and the
\* broadcast of its service has received the service, in the session of
\* the admission.
OnlyLaterBroadcastsDeliveredWitness ==
    \E c \in Chans :
       /\ session = stream.at[c]
       /\ stream.got[c] # <<>>
       /\ KeyOf(stream.got[c][1]) \in stream.before[c]

\* C34: a step in which the /api/interfaces/set handler answers a request,
\* with a switch or with a refusal, leaves the registry, every channel's
\* content, and every Discover handler where they were, so a subscriber
\* that was attached still is and what was queued is still there to be
\* received.  Checked under SpecCtl.
SwitchLeavesSubscribers ==
    [][(reply'.req.path = SetPath
        /\ (reply' # reply \/ session' # session))
          => /\ UNCHANGED <<clients, chanBuf, chanClosed, hpc>>
             /\ \A c \in clients :
                   hpc[c] = "streaming" /\ chanBuf[c] # <<>>
                      => hpc'[c] = "streaming" /\ chanBuf'[c] # <<>>]_vars

\* A switch to lo0 has been made while a subscriber was attached, and the
\* subscriber is attached with a response in its queue.
SwitchLeavesSubscribersWitness ==
    /\ session = 1
    /\ reply = [req |-> Post("lo0"), status |-> 200]
    /\ 1 \in clients
    /\ hpc[1] = "streaming"
    /\ chanBuf[1] # <<>>

\* C36: an entries channel that is closed gets no further entry (it only
\* loses the entries its consumer takes, until a later tick makes a new
\* channel for a consumer that has ended), it is closed in the step in
\* which the lookup of its tick returns, and every consumer that was
\* started ends, unless the process has died before.  Checked under
\* SpecBrowseFair.
ConsumersEnd ==
    /\ [][\A c \in Consumers :
            /\ (entries[c].closed /\ entries'[c] # entries[c]) =>
                  \/ /\ entries'[c].closed
                     /\ entries[c].buf # <<>>
                     /\ entries'[c].buf = Tail(entries[c].buf)
                  \/ /\ pc[c] = "off"
                     /\ entries'[c] = [buf |-> <<>>, closed |-> FALSE]
            /\ (~entries[c].closed /\ entries'[c].closed) =>
                  pc["browser"] = "lookup" /\ pc'["browser"] = "tickwait"]_vars
    /\ \A c \in Consumers :
          (pc[c] # "off") ~> (pc[c] = "off" \/ panicked)

\* Both ticks are over and both consumers have ended, their channels closed
\* and drained, after one of them has broadcast a service.
ConsumersEndWitness ==
    /\ nticks["browser"] = MaxBrowses
    /\ \A c \in Consumers :
          pc[c] = "off" /\ entries[c] = [buf |-> <<>>, closed |-> TRUE]
    /\ published # EmptyBag

\* The id the page compares a row by.
RowId(row) == FrontId(row.ip, row.port, row.type)

\* C35: the list of the page never holds two rows with the same
\* ip:port:type id; handling a message that is no JSON, has no service or
\* has removed = true leaves the list as it was, and so does handling a
\* message whose id a row of the list already has; making a new connection
\* leaves the list as it was.  Checked under SpecFront.
OneRowPerId ==
    /\ [](\A i, j \in 1..Len(front.services) :
             i # j => RowId(front.services[i]) # RowId(front.services[j]))
    /\ [][LET m == front'.last IN
          IF front'.received = front.received
          THEN front'.services = front.services
          ELSE /\ (m.kind # "data" \/ ~m.has \/ m.removed)
                     => front'.services = front.services
               /\ (/\ m.kind = "data" /\ m.has
                   /\ \E i \in 1..Len(front.services) :
                         RowId(front.services[i])
                            = FrontId(m.service.ip,
                                      FormatInt(m.service.port),
                                      m.service.type))
                     => front'.services = front.services]_vars

\* The page has handled a message for a service whose id the row of box
\* already had, under another name, and it lists two services.
OneRowPerIdWitness ==
    /\ front.source = "open"
    /\ Len(front.services) = 2
    /\ front.last.kind = "data" /\ front.last.has /\ ~front.last.removed
    /\ front.last.service.name # BoxService.name
    /\ \E i \in 1..2 :
          /\ RowId(front.services[i])
                = FrontId(front.last.service.ip,
                          FormatInt(front.last.service.port),
                          front.last.service.type)
          /\ front.services[i].name = BoxService.name

=============================================================================
